---- MODULE Spec2Model ----
(***************************************************************************)
(* Deutsche Scholle garden locator: the TTL cache (utils/cache.ts), the    *)
(* resilient Overpass query client (fetchOverpassAPI) and the plot         *)
(* resolution operations built on them (utils/osm.ts).                     *)
(***************************************************************************)
EXTENDS Integers, Sequences, FiniteSets, TLC

(***************************************************************************)
(* Bounds of the model                                                     *)
(***************************************************************************)
\* the clock runs from 0 to MaxHours hours, in steps of one hour
MaxHours == 2
\* number of service calls in one behaviour
MaxCalls == 2

(***************************************************************************)
(* Program constants                                                       *)
(***************************************************************************)
HourMs == 60 * 60 * 1000
TimeValues == {h * HourMs : h \in 0..MaxHours}
CACHE_PREFIX == "osm_cache_"
DEFAULT_TTL == 24 * 60 * 60 * 1000
GARDEN_TTL == 2 * 60 * 60 * 1000
ALL_GARDENS_TTL == 60 * 60 * 1000
\* OVERPASS_API_SERVERS, by position in the list
OVERPASS_API_SERVERS ==
  <<"https://overpass-api.de/api/interpreter",
    "https://overpass.kumi.systems/api/interpreter",
    "https://overpass.openstreetmap.ru/api/interpreter",
    "https://overpass-api.openstreetmap.fr/api/interpreter">>
NumServers == Len(OVERPASS_API_SERVERS)
Servers == 1..NumServers
\* fetchOverpassAPI(query, maxRetries = 3, retryDelay = 1000)
DefaultMaxRetries == 3
DefaultRetryDelay == 1000
\* findEnclosingParcel: fetchOverpassAPI(query, 2, 1500)
ParcelMaxRetries == 2
ParcelRetryDelay == 1500
FirstTimeoutMs == 30000
RetryTimeoutMs == 45000

(***************************************************************************)
(* Values: every value is a record, told apart by its fields               *)
(***************************************************************************)
\* null / undefined results
Null == [kind |-> "null"]
\* localStorage.getItem finds nothing
NoItem == [kind |-> "none"]
\* a stored blob JSON.parse rejects
Corrupt == [kind |-> "corrupt"]

\* what one fetch() call can do: resolve with an HTTP status, or reject
Statuses == {200, 404, 503, 504}
Response(status) == [status |-> status]
AbortError == [name |-> "AbortError"]
NetworkError == [name |-> "TypeError"]
Rejections == {AbortError, NetworkError}
Outcomes == {Response(s) : s \in Statuses} \cup Rejections
IsResponse(o) == "status" \in DOMAIN o

\* new Error(`Overpass API error: ${response.status} ...`)
HttpError(status) == [name |-> "Error", message |-> status]
AllServersFailed == [name |-> "Error", message |-> 0]

\* OSM ways the remote service can return, on an integer grid;
\* W1b is W1 with another outline, W3 is an element without tags
NoTags == [undefined |-> TRUE]
Pt(lat, lon) == [lat |-> lat, lon |-> lon]
Way(id, tags, geometry) == [kind |-> "way", id |-> id, tags |-> tags, geometry |-> geometry]
W1 == Way(1, [ref |-> "1050"], <<Pt(2, 2), Pt(2, 4), Pt(4, 4), Pt(4, 2)>>)
W1b == Way(1, [ref |-> "1050"], <<Pt(2, 2), Pt(2, 6), Pt(4, 6), Pt(4, 2)>>)
W2 == Way(2, [ref |-> "1051"], <<Pt(6, 2), Pt(6, 4), Pt(8, 4), Pt(8, 2)>>)
W3 == Way(3, NoTags, <<Pt(6, 6), Pt(6, 8), Pt(8, 8)>>)
Ways == {W1, W1b, W2, W3}
Numbers == {"1050"}
WayIds == {1}
List(items) == [kind |-> "list", items |-> items]

\* response bodies: unparsable, an object without elements, or an element list
Malformed == [kind |-> "malformed"]
NoElements == [kind |-> "object"]
ElementLists == {<<>>, <<W1>>, <<W2>>, <<W2, W1>>, <<W3, W1>>}
Bodies == {Malformed, NoElements} \cup {[kind |-> "object", elements |-> l] : l \in ElementLists}
\* bodies of a later answer, after way 1 has been redrawn
RefreshedBodies == {[kind |-> "object", elements |-> <<W1b>>]}
HasElements(body) == "elements" \in DOMAIN body

(***************************************************************************)
(* utils/cache.ts                                                          *)
(***************************************************************************)
ALL_GARDENS == "all_gardens"
GARDEN(number) == "garden_" \o number
GardenWayKey(wayId) == "garden_way_" \o ToString(wayId)
LogicalKeys == {ALL_GARDENS} \cup {GARDEN(n) : n \in Numbers}
                 \cup {GardenWayKey(w) : w \in WayIds}
StorageKeys == {CACHE_PREFIX \o k : k \in LogicalKeys}
startsWithPrefix(key) == \E k \in LogicalKeys : key = CACHE_PREFIX \o k

\* how localStorage behaves during one synchronous block of code
StorageModes == {"ok", "unavailable", "full", "fullUntilEvict"}

isCacheValid(entry, t) ==
  /\ entry # Null
  /\ (t - entry.timestamp) < entry.ttl

\* faulty variant: a blob that cannot be parsed, or storage that throws,
\* is not caught
getFromCacheUnguarded(st, key, t, mode) ==
  LET cached == st[CACHE_PREFIX \o key]
  IN IF mode = "unavailable" \/ cached = Corrupt
     THEN [value |-> [kind |-> "throw"], storage |-> st, caught |-> FALSE]
     ELSE IF cached.kind = "entry" /\ (t - cached.timestamp) < cached.ttl
          THEN [value |-> cached.data, storage |-> st, caught |-> FALSE]
     ELSE [value |-> Null, storage |-> [st EXCEPT ![CACHE_PREFIX \o key] = NoItem],
           caught |-> FALSE]

\* getFromCache: the value read, the storage it leaves, and whether its
\* catch block ran
getFromCache(st, key, t, mode) ==
  LET k == CACHE_PREFIX \o key
      cached == st[k]
  IN IF mode = "unavailable" THEN [value |-> Null, storage |-> st, caught |-> TRUE]
     ELSE IF cached = NoItem THEN [value |-> Null, storage |-> st, caught |-> FALSE]
     ELSE IF cached = Corrupt THEN [value |-> Null, storage |-> st, caught |-> TRUE]
     ELSE IF isCacheValid(cached, t)
          THEN [value |-> cached.data, storage |-> st, caught |-> FALSE]
     ELSE [value |-> Null, storage |-> [st EXCEPT ![k] = NoItem], caught |-> FALSE]

\* faulty variant: the eviction removes valid entries too
clearExpiredCacheAll(st, t, mode) ==
  IF mode = "unavailable" THEN st
  ELSE [k \in DOMAIN st |-> IF startsWithPrefix(k) THEN NoItem ELSE st[k]]
clearExpiredCache(st, t, mode) ==
  IF mode = "unavailable" THEN st
  ELSE [k \in DOMAIN st |->
          IF startsWithPrefix(k) /\ st[k] # NoItem
             /\ (st[k] = Corrupt \/ ~isCacheValid(st[k], t))
          THEN NoItem ELSE st[k]]

\* clearCache (cache.ts) and clearGardenCache (osm.ts)
\* faulty variant: localStorage.clear()
clearCacheEverything(st, mode) ==
  IF mode = "unavailable" THEN st ELSE [k \in DOMAIN st |-> NoItem]
clearCache(st, mode) ==
  IF mode = "unavailable" THEN st
  ELSE [k \in DOMAIN st |-> IF startsWithPrefix(k) THEN NoItem ELSE st[k]]
clearGardenCache(st, number, mode) ==
  IF mode = "unavailable" THEN st
  ELSE [st EXCEPT !["osm_cache_" \o GARDEN(number)] = NoItem]

\* faulty variant: a write over an entry keeps the entry's timestamp
setCacheKeepsTimestamp(st, key, data, ttl, t, mode) ==
  LET k == CACHE_PREFIX \o key
      since == IF st[k].kind = "entry" THEN st[k].timestamp ELSE t
  IN IF mode = "ok"
     THEN [st EXCEPT ![k] = [kind |-> "entry", data |-> data, timestamp |-> since, ttl |-> ttl]]
     ELSE st

\* setCache: the storage it leaves; setCacheCaught: whether a write threw
setCacheCaught(mode) == mode # "ok"
setCache(st, key, data, ttl, t, mode) ==
  LET k == CACHE_PREFIX \o key
      entry == [kind |-> "entry", data |-> data, timestamp |-> t, ttl |-> ttl]
  IN IF mode = "ok" THEN [st EXCEPT ![k] = entry]
     ELSE LET cleared == clearExpiredCache(st, t, mode)
          IN IF mode = "fullUntilEvict" THEN [cleared EXCEPT ![k] = entry]
             ELSE cleared

(***************************************************************************)
(* fetchOverpassAPI: one step of the retry and fallback loops              *)
(***************************************************************************)
\* faulty variants of the operators below, against which the properties of
\* the query client are tested
IsOkAbove200(status) == status > 200 /\ status <= 299
IsOverloadedOnly504(status) == status = 504
BackoffDelayConstant(rDelay, att) == rDelay
IsOk(status) == status >= 200 /\ status <= 299
IsOverloaded(status) == status = 504 \/ status = 503
HasRetriesLeft(att, maxR) == att < maxR - 1
BackoffDelay(rDelay, att) == rDelay * 2^att
RequestTimeout(att) == IF att = 0 THEN FirstTimeoutMs ELSE RetryTimeoutMs

\* faulty variant: every non-success status is retried while retries remain
OnResponseRetriesAll(status, att, maxR, lastErr) ==
  IF status >= 200 /\ status <= 299 THEN [act |-> "return", lastError |-> lastErr]
  ELSE IF att < maxR - 1 THEN [act |-> "wait", lastError |-> lastErr]
  ELSE [act |-> "next", lastError |-> HttpError(status)]

\* what the loop body does with a response: return it, wait and retry,
\* leave the server (break), or fall to the end of the body (next)
OnResponse(status, att, maxR, lastErr) ==
  IF IsOk(status) THEN [act |-> "return", lastError |-> lastErr]
  ELSE IF IsOverloaded(status) /\ HasRetriesLeft(att, maxR)
       THEN [act |-> "wait", lastError |-> lastErr]
  ELSE IF ~IsOverloaded(status)
       THEN [act |-> "break", lastError |-> HttpError(status)]
  ELSE [act |-> "next", lastError |-> HttpError(status)]

\* faulty variant: a timed-out request leaves the server at once
OnRejectionNoRetry(error, att, maxR, lastErr) == [act |-> "break", lastError |-> error]

\* faulty variant: every rejected request is retried while retries remain
OnRejectionRetriesAll(error, att, maxR, lastErr) ==
  IF att < maxR - 1 THEN [act |-> "wait", lastError |-> lastErr]
  ELSE [act |-> "next", lastError |-> error]

\* what the catch block does with a rejected fetch
OnRejection(error, att, maxR, lastErr) ==
  IF error.name = "AbortError" /\ HasRetriesLeft(att, maxR)
  THEN [act |-> "wait", lastError |-> lastErr]
  ELSE IF error.name # "AbortError"
       THEN [act |-> "break", lastError |-> error]
  ELSE [act |-> "next", lastError |-> error]

OnOutcome(o, att, maxR, lastErr) ==
  IF IsResponse(o) THEN OnResponse(o.status, att, maxR, lastErr)
  ELSE OnRejection(o, att, maxR, lastErr)

\* loop control: the next (server, attempt) at which a request is sent
Exhausted == [srv |-> 0, attempt |-> 0]
RECURSIVE ServerNext(_, _)
ServerNext(s, maxR) ==
  IF s + 1 > NumServers THEN Exhausted
  ELSE IF 0 < maxR THEN [srv |-> s + 1, attempt |-> 0]
  ELSE ServerNext(s + 1, maxR)
\* faulty variants: one attempt too many; a server left out
LoopNextOneMore(s, att, maxR) ==
  IF att + 1 <= maxR THEN [srv |-> s, attempt |-> att + 1]
  ELSE ServerNext(s, maxR)
LoopNextSkipsServer(s, att, maxR) ==
  IF att + 1 < maxR THEN [srv |-> s, attempt |-> att + 1]
  ELSE ServerNext(s + 1, maxR)
LoopNext(s, att, maxR) ==
  IF att + 1 < maxR THEN [srv |-> s, attempt |-> att + 1]
  ELSE ServerNext(s, maxR)
FirstRequest(maxR) == ServerNext(0, maxR)

\* faulty variant: the last error is dropped
ThrownGeneric(lastErr) == AllServersFailed

\* throw lastError || new Error('Overpass API: All servers failed')
Thrown(lastErr) == IF lastErr = Null THEN AllServersFailed ELSE lastErr

(***************************************************************************)
(* utils/osm.ts: the plot resolution operations, cut at their await points *)
(***************************************************************************)
Value(v) == [kind |-> "value", val |-> v]
Raised(e) == [kind |-> "throw", val |-> e]
NoResult == [kind |-> "none"]
Finished(res, st, caught) == [result |-> res, storage |-> st, caught |-> caught]

\* data.elements.find(el => el.tags.ref === gardenNumber): the index found,
\* 0 when no element matches, -1 when reading el.tags.ref throws
RECURSIVE FindRef(_, _, _)
FindRef(elements, number, i) ==
  IF i > Len(elements) THEN 0
  ELSE IF elements[i].tags = NoTags THEN -1
  ELSE IF "ref" \in DOMAIN elements[i].tags /\ elements[i].tags.ref = number THEN i
  ELSE FindRef(elements, number, i + 1)

\* searchGardenByNumber, catch block
\* faulty variant: the catch block rethrows
SearchCatchRethrows(err, number, st, t, mode) == Finished(Raised(err), st, FALSE)
\* faulty variant: the entry is invalidated once its payload was served
SearchCatchDropsEntry(err, number, st, t, mode) ==
  LET stale == getFromCache(st, GARDEN(number), t, mode)
  IN Finished(Value(stale.value), clearGardenCache(stale.storage, number, mode), stale.caught)
SearchCatch(err, number, st, t, mode) ==
  LET stale == getFromCache(st, GARDEN(number), t, mode)
  IN Finished(Value(stale.value), stale.storage, stale.caught)

\* faulty variant: an answer without elements removes the plot's entry
SearchBodyForgetsOnEmpty(body, number, st, t, mode) ==
  IF body = Malformed THEN SearchCatch([name |-> "SyntaxError"], number, st, t, mode)
  ELSE IF HasElements(body) /\ Len(body.elements) > 0
  THEN LET found == FindRef(body.elements, number, 1)
           res == IF found > 0 THEN body.elements[found] ELSE body.elements[1]
       IN IF found < 0 THEN SearchCatch(NetworkError, number, st, t, mode)
          ELSE Finished(Value(res), setCache(st, GARDEN(number), res, GARDEN_TTL, t, mode),
                        setCacheCaught(mode))
  ELSE Finished(Value(Null), clearGardenCache(st, number, mode), FALSE)

\* searchGardenByNumber, from response.json() to the return
SearchBody(body, number, st, t, mode) ==
  IF body = Malformed THEN SearchCatch([name |-> "SyntaxError"], number, st, t, mode)
  ELSE IF HasElements(body) /\ Len(body.elements) > 0
  THEN LET found == FindRef(body.elements, number, 1)
           res == IF found > 0 THEN body.elements[found] ELSE body.elements[1]
       IN IF found < 0 THEN SearchCatch(NetworkError, number, st, t, mode)
          ELSE Finished(Value(res), setCache(st, GARDEN(number), res, GARDEN_TTL, t, mode),
                        setCacheCaught(mode))
  ELSE Finished(Value(Null), st, FALSE)

\* loadAllGardens, catch block
LoadAllCatch(err, st, t, mode) ==
  LET stale == getFromCache(st, ALL_GARDENS, t, mode)
  IN IF stale.value # Null /\ Len(stale.value.items) > 0
     THEN Finished(Value(stale.value), stale.storage, stale.caught)
     ELSE Finished(Value(List(<<>>)), stale.storage, stale.caught)

\* faulty variant: the list is written to the cache even when it is empty
LoadAllBodyCachesEmpty(body, st, t, mode) ==
  IF body = Malformed THEN LoadAllCatch([name |-> "SyntaxError"], st, t, mode)
  ELSE LET gardens == IF HasElements(body) THEN body.elements ELSE <<>>
       IN Finished(Value(List(gardens)),
                   setCache(st, ALL_GARDENS, List(gardens), ALL_GARDENS_TTL, t, mode),
                   setCacheCaught(mode))

\* loadAllGardens, from response.json() to the return
LoadAllBody(body, st, t, mode) ==
  IF body = Malformed THEN LoadAllCatch([name |-> "SyntaxError"], st, t, mode)
  ELSE LET gardens == IF HasElements(body) THEN body.elements ELSE <<>>
       IN IF Len(gardens) > 0
          THEN Finished(Value(List(gardens)),
                        setCache(st, ALL_GARDENS, List(gardens), ALL_GARDENS_TTL, t, mode),
                        setCacheCaught(mode))
          ELSE Finished(Value(List(gardens)), st, FALSE)

\* loadGardenByWayId, catch block
WayIdCatch(err, wayId, st, t, mode) ==
  LET stale == getFromCache(st, GardenWayKey(wayId), t, mode)
  IN Finished(Value(stale.value), stale.storage, stale.caught)

\* loadGardenByWayId, from response.json() to the return
WayIdBody(body, wayId, st, t, mode) ==
  IF body = Malformed THEN WayIdCatch([name |-> "SyntaxError"], wayId, st, t, mode)
  ELSE IF HasElements(body) /\ Len(body.elements) > 0
  THEN Finished(Value(body.elements[1]),
                setCache(st, GardenWayKey(wayId), body.elements[1], GARDEN_TTL, t, mode),
                setCacheCaught(mode))
  ELSE Finished(Value(Null), st, FALSE)

(***************************************************************************)
(* findEnclosingParcel                                                     *)
(***************************************************************************)
Str(name) == [kind |-> "string", s |-> name]
\* element.tags?.key; a missing tag reads as the empty (falsy) string
Tag(el, key) ==
  IF el.tags = NoTags THEN ""
  ELSE IF key \in DOMAIN el.tags THEN el.tags[key] ELSE ""

SetMin(S) == CHOOSE x \in S : \A y \in S : x <= y
SetMax(S) == CHOOSE x \in S : \A y \in S : x >= y
LatsOf(geom) == {geom[i].lat : i \in DOMAIN geom}
LonsOf(geom) == {geom[i].lon : i \in DOMAIN geom}
\* (max lat - min lat) * (max lon - min lon), 0 without geometry
BoxArea(geom) ==
  IF Len(geom) = 0 THEN 0
  ELSE (SetMax(LatsOf(geom)) - SetMin(LatsOf(geom)))
         * (SetMax(LonsOf(geom)) - SetMin(LonsOf(geom)))

\* isPointInPolygon for the point (lat2 / 2, lon2 / 2): the ray-casting loop,
\* with the division of the crossing test multiplied out
Crosses(lat2, lon2, pi, pj) ==
  LET yi == 2 * pi.lat
      yj == 2 * pj.lat
      xi == 2 * pi.lon
      xj == 2 * pj.lon
      d == yj - yi
  IN /\ (yi > lat2) # (yj > lat2)
     /\ IF d > 0 THEN (lon2 - xi) * d < (xj - xi) * (lat2 - yi)
                 ELSE (lon2 - xi) * d > (xj - xi) * (lat2 - yi)
isPointInPolygon(lat2, lon2, polygon) ==
  LET n == Len(polygon)
      crossings == {i \in 1..n :
                      Crosses(lat2, lon2, polygon[i], polygon[IF i = 1 THEN n ELSE i - 1])}
  IN Cardinality(crossings) % 2 = 1

\* the filter of the candidates
KeepCandidate(element, area, gardenWayId, gardenArea) ==
  IF element.id = gardenWayId THEN FALSE
  ELSE IF Tag(element, "landuse") = "allotments" THEN TRUE
  ELSE IF Tag(element, "allotments") = "allotments" \/ Tag(element, "allotments") = "site"
       THEN TRUE
  ELSE IF Tag(element, "allotments") = "plot" THEN area > gardenArea * 2
  ELSE IF Tag(element, "highway") # "" THEN FALSE
  ELSE area > gardenArea * 3

\* the comparator of filteredElements.sort
IsParcel(element) == Tag(element, "allotments") = "plot" /\ Tag(element, "name") # ""
IsVerein(element) == Tag(element, "landuse") = "allotments"
CompareCandidates(a, b) ==
  IF IsParcel(a) /\ ~IsParcel(b) THEN -1
  ELSE IF ~IsParcel(a) /\ IsParcel(b) THEN 1
  ELSE IF IsVerein(a) /\ ~IsVerein(b) THEN 1
  ELSE IF ~IsVerein(a) /\ IsVerein(b) THEN -1
  ELSE BoxArea(a.geometry) - BoxArea(b.geometry)

\* Array.prototype.sort is stable: insert each element behind its equals
RECURSIVE InsertSorted(_, _)
InsertSorted(sorted, x) ==
  IF Len(sorted) = 0 THEN <<x>>
  ELSE IF CompareCandidates(Head(sorted), x) <= 0
       THEN <<Head(sorted)>> \o InsertSorted(Tail(sorted), x)
       ELSE <<x>> \o sorted
RECURSIVE SortCandidates(_)
SortCandidates(seq) ==
  IF Len(seq) = 0 THEN <<>>
  ELSE InsertSorted(SortCandidates(SubSeq(seq, 1, Len(seq) - 1)), seq[Len(seq)])

RECURSIVE FilterCandidates(_, _, _)
FilterCandidates(elements, gardenWayId, gardenArea) ==
  IF Len(elements) = 0 THEN <<>>
  ELSE LET rest == FilterCandidates(Tail(elements), gardenWayId, gardenArea)
       IN IF KeepCandidate(Head(elements), BoxArea(Head(elements).geometry),
                           gardenWayId, gardenArea)
          THEN <<Head(elements)>> \o rest ELSE rest

Inside(lat2, lon2, element) ==
  Len(element.geometry) > 0 /\ isPointInPolygon(lat2, lon2, element.geometry)

\* the main loop over the sorted candidates: the name returned, or the
\* Verein remembered as fallback ("" when there is none)
RECURSIVE CandidateLoop(_, _, _, _)
CandidateLoop(cands, lat2, lon2, vereinFallback) ==
  IF Len(cands) = 0 THEN [returned |-> FALSE, name |-> vereinFallback]
  ELSE LET el == Head(cands)
       IN IF ~Inside(lat2, lon2, el)
          THEN CandidateLoop(Tail(cands), lat2, lon2, vereinFallback)
          ELSE IF IsVerein(el) /\ Tag(el, "name") # ""
               THEN CandidateLoop(Tail(cands), lat2, lon2, Tag(el, "name"))
          ELSE IF Tag(el, "name") # "" THEN [returned |-> TRUE, name |-> Tag(el, "name")]
          ELSE CandidateLoop(Tail(cands), lat2, lon2, vereinFallback)

\* the largest polygon around the centre among all elements but the garden:
\* its index, 0 when there is none
RECURSIVE LargestEnclosing(_, _, _, _, _, _)
LargestEnclosing(elements, i, gardenWayId, lat2, lon2, best) ==
  IF i > Len(elements) THEN best
  ELSE IF elements[i].id # gardenWayId /\ Inside(lat2, lon2, elements[i])
          /\ (best = 0 \/ BoxArea(elements[i].geometry) > BoxArea(elements[best].geometry))
       THEN LargestEnclosing(elements, i + 1, gardenWayId, lat2, lon2, i)
  ELSE LargestEnclosing(elements, i + 1, gardenWayId, lat2, lon2, best)

\* data.elements.find(el => el.tags?.name): the index, 0 when there is none
RECURSIVE FirstWithName(_, _)
FirstWithName(elements, i) ==
  IF i > Len(elements) THEN 0
  ELSE IF Tag(elements[i], "name") # "" THEN i
  ELSE FirstWithName(elements, i + 1)

\* the name findEnclosingParcel returns for a parsed, non-empty element list
SelectParcel(gardenWay, elements) ==
  LET lats == LatsOf(gardenWay.geometry)
      lons == LonsOf(gardenWay.geometry)
      lat2 == SetMin(lats) + SetMax(lats)
      lon2 == SetMin(lons) + SetMax(lons)
      gardenArea == BoxArea(gardenWay.geometry)
      sorted == SortCandidates(FilterCandidates(elements, gardenWay.id, gardenArea))
      main == CandidateLoop(sorted, lat2, lon2, "")
      largest == LargestEnclosing(elements, 1, gardenWay.id, lat2, lon2, 0)
      first == FirstWithName(elements, 1)
  IN IF main.name # "" THEN Str(main.name)
     ELSE IF largest > 0 /\ Tag(elements[largest], "name") # ""
          THEN Str(Tag(elements[largest], "name"))
     ELSE IF first > 0 THEN Str(Tag(elements[first], "name"))
     ELSE Null

\* findEnclosingParcel, catch block
ParcelCatch(err, st) == Finished(Value(Null), st, FALSE)

\* findEnclosingParcel, from response.json() to the return
ParcelBody(body, gardenWay, st) ==
  IF body = Malformed THEN ParcelCatch([name |-> "SyntaxError"], st)
  ELSE IF HasElements(body) /\ Len(body.elements) > 0
  THEN Finished(Value(SelectParcel(gardenWay, body.elements)), st, FALSE)
  ELSE Finished(Value(Null), st, FALSE)

\* inputs and answers of findEnclosingParcel
WNoGeometry == Way(4, [ref |-> "1052"], <<>>)
GardenInputs == {W1, WNoGeometry}
PSite == Way(10, [landuse |-> "allotments", name |-> "KGV Deutsche Scholle"],
             <<Pt(0, 0), Pt(0, 10), Pt(10, 10), Pt(10, 0)>>)
PPlot == Way(11, [allotments |-> "plot", name |-> "Klostergaerten 1"],
             <<Pt(0, 0), Pt(0, 6), Pt(6, 6), Pt(6, 0)>>)
PSelf == Way(1, [allotments |-> "plot", ref |-> "1050", name |-> "Garten 1050"],
             <<Pt(2, 2), Pt(2, 4), Pt(4, 4), Pt(4, 2)>>)
PRoad == Way(12, [highway |-> "service", name |-> "Limberger Strasse"],
             <<Pt(0, 0), Pt(0, 10), Pt(10, 10), Pt(10, 0)>>)
ParcelElems == {PSite, PPlot, PSelf, PRoad}
ParcelLists == {<<>>, <<PSite>>, <<PSite, PPlot>>, <<PPlot, PSite>>, <<PSelf>>,
                <<PRoad, PSelf>>, <<PSelf, PSite>>}
ParcelBodies == {Malformed, NoElements}
                  \cup {[kind |-> "object", elements |-> l] : l \in ParcelLists}

(***************************************************************************)
(* Geometry: calculatePolygonArea, osmWayToGarden (utils/osm.ts) and       *)
(* utils/mapHelpers.ts.  Coordinates are whole degrees; Math.sin and       *)
(* Math.cos are tabulated in thousandths, areas come out in km2.           *)
(***************************************************************************)
Abs(x) == IF x < 0 THEN -x ELSE x
\* 1000 * Math.sin(lat * Math.PI / 180)
Sin1000(lat) ==
  CASE lat = 0 -> 0 [] lat = 1 -> 17 [] lat = 2 -> 35 [] lat = 3 -> 52 [] lat = 4 -> 70
    [] lat = 5 -> 87 [] lat = 6 -> 105 [] lat = 7 -> 122 [] lat = 8 -> 139
    [] lat = 9 -> 156 [] lat = 10 -> 174 [] OTHER -> 1000
\* 1000 * Math.cos((half / 2) * Math.PI / 180)
Cos1000(half) ==
  CASE half \in 0..3 -> 1000 [] half \in 4..6 -> 999 [] half \in 7..8 -> 998
    [] half = 9 -> 997 [] half = 10 -> 996 [] half \in 11..12 -> 995 [] half = 13 -> 994
    [] half = 14 -> 993 [] half = 15 -> 991 [] half = 16 -> 990 [] half \in 17..18 -> 988
    [] half \in 19..20 -> 985 [] half = 93 -> 688 [] OTHER -> 0
\* with R = 6371000: (Math.PI / 180) * R * R / 2 per thousandth, in km2, and
\* 100 * (Math.PI / 180)^2 * R * R per thousandth, in km2
SphereFactor == 354
BoxFactor == 1236

RECURSIVE ExcessSum(_, _)
\* the loop of calculatePolygonArea over coords, from index i (counted from 0)
ExcessSum(coords, i) ==
  IF i >= Len(coords) - 1 THEN 0
  ELSE LET j == (i + 1) % (Len(coords) - 1)
           p == coords[i + 1]
           q == coords[j + 1]
       IN (q.lon - p.lon) * (2000 + Sin1000(p.lat) + Sin1000(q.lat))
            + ExcessSum(coords, i + 1)

calculatePolygonArea(geometry) ==
  IF Len(geometry) < 3 THEN 0
  ELSE LET last == geometry[Len(geometry)]
           coords == IF geometry[1].lat # last.lat \/ geometry[1].lon # last.lon
                     THEN Append(geometry, geometry[1]) ELSE geometry
           area == Abs(ExcessSum(coords, 0)) * SphereFactor
           minLat == SetMin(LatsOf(geometry))
           maxLat == SetMax(LatsOf(geometry))
           minLon == SetMin(LonsOf(geometry))
           maxLon == SetMax(LonsOf(geometry))
       IN IF area < 1
          THEN ((maxLat - minLat) * (maxLon - minLon) * Cos1000(minLat + maxLat) * BoxFactor)
                 \div 100
          ELSE area

\* arguments of osmWayToGarden: mockData and enclosingParcel may be omitted
Undefined == [kind |-> "undefined"]
\* a || fallback for a string argument or field
IsTruthy(v) == v.kind = "string" /\ v.s # ""
\* mockData?.field || '' and mockData?.field || 0
MockString(mockData, field) ==
  IF mockData = Undefined THEN Str("")
  ELSE IF field \notin DOMAIN mockData THEN Str("")
  ELSE mockData[field]
MockNumber(mockData, field) ==
  IF mockData = Undefined THEN 0
  ELSE IF field \notin DOMAIN mockData THEN 0
  ELSE mockData[field]
HasGeometry(osmWay) == "geometry" \in DOMAIN osmWay /\ Len(osmWay.geometry) > 0
\* a sum divided by a count, kept exact
Ratio(sum, count) == [num |-> sum, den |-> count]
RECURSIVE SumOf(_, _, _)
SumOf(geometry, field, i) ==
  IF i > Len(geometry) THEN 0 ELSE geometry[i][field] + SumOf(geometry, field, i + 1)

\* faulty variant: the registry parcel wins over the enclosing parcel
ParcelOfRegistryFirst(mockData, enclosingParcel) ==
  IF IsTruthy(MockString(mockData, "parcel")) THEN MockString(mockData, "parcel")
  ELSE IF IsTruthy(enclosingParcel) THEN enclosingParcel
  ELSE Str("")

\* enclosingParcel || mockData?.parcel || ''
ParcelOf(mockData, enclosingParcel) ==
  IF IsTruthy(enclosingParcel) THEN enclosingParcel
  ELSE MockString(mockData, "parcel")

\* faulty variant: the registry size stands in for the computed area
OsmSizeOfRegistry(osmWay, mockData) ==
  IF MockNumber(mockData, "size") # 0 THEN MockNumber(mockData, "size")
  ELSE calculatePolygonArea(osmWay.geometry)

\* osmSize: calculatedSize
OsmSizeOf(osmWay, mockData) == calculatePolygonArea(osmWay.geometry)

osmWayToGarden(osmWay, mockData, enclosingParcel) ==
  IF ~HasGeometry(osmWay) THEN Value(Null)
  ELSE IF osmWay.tags = NoTags THEN Raised([name |-> "TypeError"])
  ELSE LET geometry == osmWay.geometry
       IN Value([id |-> "garden-" \o ToString(osmWay.id),
                 number |-> Str(Tag(osmWay, "ref")),
                 parcel |-> ParcelOf(mockData, enclosingParcel),
                 size |-> MockNumber(mockData, "size"),
                 osmSize |-> OsmSizeOf(osmWay, mockData),
                 availableFrom |-> MockString(mockData, "availableFrom"),
                 valuation |-> MockNumber(mockData, "valuation"),
                 valueReduction |-> MockNumber(mockData, "valueReduction"),
                 coordinates |-> <<Ratio(SumOf(geometry, "lat", 1), Len(geometry)),
                                   Ratio(SumOf(geometry, "lon", 1), Len(geometry))>>,
                 bounds |-> <<<<SetMin(LatsOf(geometry)), SetMin(LonsOf(geometry))>>,
                              <<SetMax(LatsOf(geometry)), SetMax(LonsOf(geometry))>>>>,
                 osmWayId |-> osmWay.id])

(***************************************************************************)
(* utils/mapHelpers.ts                                                     *)
(***************************************************************************)
\* Infinity and -Infinity, the bounds before any point was seen
PlusInfinity == [kind |-> "Infinity", sign |-> 1]
MinusInfinity == [kind |-> "Infinity", sign |-> -1]

\* the points of the gardens that have a geometry; every coordinate of the
\* model is a number and not NaN, so each passes the test of the loop
RECURSIVE PointsOfGardens(_)
PointsOfGardens(allGardens) ==
  IF Len(allGardens) = 0 THEN {}
  ELSE (IF HasGeometry(Head(allGardens))
        THEN {Head(allGardens).geometry[i] : i \in DOMAIN Head(allGardens).geometry}
        ELSE {})
       \cup PointsOfGardens(Tail(allGardens))

calculateGardensBounds(allGardens) ==
  LET points == PointsOfGardens(allGardens)
  IN IF points = {}
     THEN [minLat |-> PlusInfinity, maxLat |-> MinusInfinity,
           minLon |-> PlusInfinity, maxLon |-> MinusInfinity, hasValidBounds |-> FALSE]
     ELSE [minLat |-> SetMin({q.lat : q \in points}), maxLat |-> SetMax({q.lat : q \in points}),
           minLon |-> SetMin({q.lon : q \in points}), maxLon |-> SetMax({q.lon : q \in points}),
           hasValidBounds |-> TRUE]

\* the city area, in ten-thousandths of a degree
OSNABRUECK_BOUNDS == [north |-> 523200, south |-> 522000, east |-> 81000, west |-> 79500]
Min2(a, b) == IF a <= b THEN a ELSE b
Max2(a, b) == IF a >= b THEN a ELSE b

\* coordinates in ten-thousandths of a degree, the padding in whole percent
applyBoundsPadding(minLat, maxLat, minLon, maxLon, paddingPercent) ==
  LET latPadding == ((maxLat - minLat) * paddingPercent) \div 100
      lonPadding == ((maxLon - minLon) * paddingPercent) \div 100
      paddedMinLat == Max2(OSNABRUECK_BOUNDS.south, minLat - latPadding)
      paddedMaxLat == Min2(OSNABRUECK_BOUNDS.north, maxLat + latPadding)
      paddedMinLon == Max2(OSNABRUECK_BOUNDS.west, minLon - lonPadding)
      paddedMaxLon == Min2(OSNABRUECK_BOUNDS.east, maxLon + lonPadding)
  IN <<<<paddedMinLat, paddedMinLon>>, <<paddedMaxLat, paddedMaxLon>>>>

isValidCoordinate(lat, lon) == lat >= -90 /\ lat <= 90 /\ lon >= -180 /\ lon <= 180

RECURSIVE ValidPoints(_)
\* geometry.filter((p) => isValidCoordinate(p.lat, p.lon))
ValidPoints(geometry) ==
  IF Len(geometry) = 0 THEN <<>>
  ELSE IF isValidCoordinate(Head(geometry).lat, Head(geometry).lon)
       THEN <<Head(geometry)>> \o ValidPoints(Tail(geometry))
       ELSE ValidPoints(Tail(geometry))

calculateGeometryCenter(geometry) ==
  IF Len(geometry) = 0 THEN Null
  ELSE LET validPoints == ValidPoints(geometry)
       IN IF Len(validPoints) = 0 THEN Null
          ELSE [lat |-> Ratio(SumOf(validPoints, "lat", 1), Len(validPoints)),
                lon |-> Ratio(SumOf(validPoints, "lon", 1), Len(validPoints))]

(***************************************************************************)
(* State                                                                   *)
(***************************************************************************)
VARIABLES
  storage,     \* localStorage: key -> NoItem, Corrupt or a cache entry
  now,         \* Date.now(), in ms
  calls,       \* operations started so far
  pc,          \* "idle", "fetch" (request in flight), "wait" (backoff timer),
               \* "json" (awaiting response.json()), "done"
  op,          \* the operation in progress and its arguments
  result,      \* how the operation completed: a value or a raised error
  faults,      \* whether a storage access of the operation has thrown (and was caught)
  srv,         \* fetchOverpassAPI: index of serverUrl in OVERPASS_API_SERVERS
  attempt,     \* fetchOverpassAPI: attempt
  lastError,   \* fetchOverpassAPI: lastError
  maxRetries,  \* fetchOverpassAPI: maxRetries
  retryDelay,  \* fetchOverpassAPI: retryDelay
  resp,        \* how the latest request ended
  delay,       \* duration of the latest backoff timer
  execResult,  \* how fetchOverpassAPI completed: the response or the error thrown
  env,         \* what each endpoint can answer during this call
  reqs,        \* the requests of a direct fetchOverpassAPI call, in order
  json,        \* how the latest response.json() settled
  returned,    \* what a ...WithUpdate function has returned to its caller
  callback,    \* how the then-handler of a ...WithUpdate function treated onUpdate
  consumer,    \* the page component that calls the service: cookies, consent state, effects
  geoArgs,     \* arguments of the latest call of a geometry function
  geoResult,   \* what that call returned
  peers        \* two callers of searchGardenByNumber whose calls overlap

cacheVars == <<storage, now>>
execVars == <<srv, attempt, lastError, maxRetries, retryDelay, resp, delay, execResult, env, reqs>>
updateVars == <<returned, callback>>
geoVars == <<geoArgs, geoResult>>
pageVars == <<consumer, geoArgs, geoResult, peers>>
vars == <<storage, now, calls, pc, op, result, faults, srv, attempt, lastError, maxRetries,
          retryDelay, resp, delay, execResult, env, reqs, json, returned, callback,
          consumer, geoArgs, geoResult, peers>>

NoOp == [name |-> "none"]
NoOutcome == [kind |-> "none"]
AnyEnv == [s \in Servers |-> Outcomes]
\* the endpoints as the operations of the service meet them: a success, an
\* overload status, a timeout or a network failure
ServiceEnv == [s \in Servers |-> {Response(200), Response(503), AbortError, NetworkError}]
\* endpoint 1 always answers 503, endpoint 2 always answers 200
OverloadedThenHealthy ==
  [s \in Servers |-> IF s = 1 THEN {Response(503)}
                     ELSE IF s = 2 THEN {Response(200)} ELSE Outcomes]
\* the Response object fetch resolved with: its status and the url it came from
Answer(o, s) == [status |-> o.status, url |-> OVERPASS_API_SERVERS[s]]
Request(s, att) == [srv |-> s, attempt |-> att, timeout |-> RequestTimeout(att)]

\* keys of localStorage that other modules own (GardenList's sort settings)
ForeignKeys == {"gardenSortBy"}
Setting == [kind |-> "setting"]
EmptyStorage == [k \in StorageKeys \cup ForeignKeys |-> NoItem]

(***************************************************************************)
(* The pages that call the service: App (home), GardenPage (garden) and    *)
(* the size comparison page (compare)                                      *)
(***************************************************************************)
\* document.cookie: what getCookie yields for the two consent cookies
CookieValues == {"unset", "true", "false", "1"}
Cookies == [google : {"unset", "true"}, osm : CookieValues]
\* what the consent banner hands to onConsentChange (boolean | null)
Preferences == [googleMaps : {"true"}, openStreetMap : {"true", "false", "null"}]
NoPreferences == [googleMaps |-> FALSE, openStreetMap |-> FALSE]
Pages == {"home", "garden", "compare"}

\* faulty variant: any stored cookie value counts as consent
loadCookiePreferencesTruthy(cookies) ==
  [googleMaps |-> cookies.google # "unset", openStreetMap |-> cookies.osm # "unset"]

\* utils/cookies.ts
loadCookiePreferences(cookies) ==
  [googleMaps |-> cookies.google = "true", openStreetMap |-> cookies.osm = "true"]

\* App, the effect that reads the cookies at the start
AppInitialPreferences(cookies) ==
  IF cookies.google # "unset" /\ cookies.osm # "unset"
  THEN [googleMaps |-> cookies.google = "true", openStreetMap |-> cookies.osm = "true"]
  ELSE NoPreferences

\* App and GardenPage, handleConsentChange
handleConsentChange(preferences) ==
  [googleMaps |-> preferences.googleMaps = "true",
   openStreetMap |-> preferences.openStreetMap = "true"]

\* CookieConsentContent: the banner stores a choice before it reports it
BannerCookies(cookies, preferences) ==
  IF preferences.openStreetMap = "null" THEN cookies
  ELSE [google |-> preferences.googleMaps, osm |-> preferences.openStreetMap]

\* the effects of a page that depend on cookiePreferences.openStreetMap
EffectsOf(page) ==
  IF page = "home" THEN {"region"}
  ELSE IF page = "garden" THEN {"region", "garden"}
  ELSE {"compare"}

NoConsumer ==
  [page |-> "none", cookies |-> [google |-> "unset", osm |-> "unset"],
   cookiePreferences |-> NoPreferences, effects |-> {}, lookup |-> "none", loop |-> FALSE]

\* the page after the call of the service that its effect or handler makes
Called(c, o) ==
  IF c.page = "none" THEN c
  ELSE [c EXCEPT !.effects = IF o.name = "loadAll" THEN c.effects \ {"region", "compare"}
                             ELSE c.effects \ {"garden"},
                 !.lookup = "started",
                 !.loop = (c.page = "compare")]

\* a caller of searchGardenByNumber: where its call stands, the loop
\* variables of its fetchOverpassAPI, the requests it has sent, what it
\* returned and when it wrote to the cache; last: the caller that wrote last
NoPeer ==
  [pc |-> "idle", srv |-> 0, attempt |-> 0, lastError |-> Null, sent |-> 0,
   result |-> NoResult, at |-> 0]
NoPeers == [call |-> [i \in 1..2 |-> NoPeer], last |-> 0]

\* nothing is in progress
Idle ==
  /\ now = 0
  /\ calls = 0
  /\ pc = "idle"
  /\ op = NoOp
  /\ result = NoResult
  /\ faults = FALSE
  /\ srv = 0
  /\ attempt = 0
  /\ lastError = Null
  /\ maxRetries = 0
  /\ retryDelay = 0
  /\ resp = NoOutcome
  /\ delay = 0
  /\ execResult = NoResult
  /\ env = AnyEnv
  /\ reqs = <<>>
  /\ json = NoOutcome
  /\ returned = NoResult
  /\ callback = NoResult
  /\ geoArgs = NoResult
  /\ geoResult = NoResult
  /\ peers = NoPeers

Init == storage = EmptyStorage /\ consumer = NoConsumer /\ Idle

\* the catch block of the operation that awaits fetchOverpassAPI
AfterThrow(o, err, st, t, mode) ==
  CASE o.name = "search" -> SearchCatch(err, o.number, st, t, mode)
    [] o.name = "loadAll" -> LoadAllCatch(err, st, t, mode)
    [] o.name = "wayId" -> WayIdCatch(err, o.wayId, st, t, mode)
    [] o.name = "parcel" -> ParcelCatch(err, st)
    [] OTHER -> Finished(Raised(err), st, FALSE)

\* the operation's code behind await response.json()
AfterBody(o, body, st, t, mode) ==
  CASE o.name = "search" -> SearchBody(body, o.number, st, t, mode)
    [] o.name = "loadAll" -> LoadAllBody(body, st, t, mode)
    [] o.name = "wayId" -> WayIdBody(body, o.wayId, st, t, mode)
    [] OTHER -> ParcelBody(body, o.way, st)

\* the history of a direct call of fetchOverpassAPI is recorded
Recorded(o) == o.name = "execute"

\* fetchOverpassAPI reaches position pos of its loops with lastError err: it
\* sends the next request, or leaves the loops and throws into the catch
\* block of the operation o that awaits it (st: the storage o has left),
\* which runs under any behaviour of localStorage
Proceed(o, pos, err, st, caught) ==
  IF pos = Exhausted
  THEN /\ pc' = "done"
       /\ execResult' = Raised(Thrown(err))
       /\ \E mode \in StorageModes :
            LET fin == AfterThrow(o, Thrown(err), st, now, mode)
            IN /\ result' = fin.result
               /\ storage' = fin.storage
               /\ faults' = (caught \/ fin.caught)
       /\ srv' = 0
       /\ attempt' = 0
       /\ lastError' = Null
       /\ reqs' = reqs
  ELSE /\ pc' = "fetch"
       /\ srv' = pos.srv
       /\ attempt' = pos.attempt
       /\ lastError' = err
       /\ reqs' = IF Recorded(o) THEN Append(reqs, Request(pos.srv, pos.attempt)) ELSE reqs
       /\ storage' = st
       /\ faults' = caught
       /\ UNCHANGED <<execResult, result>>

\* a call of fetchOverpassAPI(query, maxR, rDelay) up to its first await,
\* reached when the clock reads t
StartFetchAt(o, maxR, rDelay, e, st, caught, t) ==
  /\ op' = o
  /\ calls' = calls + 1
  /\ maxRetries' = maxR
  /\ retryDelay' = rDelay
  /\ env' = e
  /\ Proceed(o, FirstRequest(maxR), Null, st, caught)
  /\ now' = t
  /\ consumer' = Called(consumer, o)
  /\ UNCHANGED <<resp, delay, json, geoVars, peers>>
StartFetch(o, maxR, rDelay, e, st, caught) == StartFetchAt(o, maxR, rDelay, e, st, caught, now)

\* an operation that returns before any request is sent, when the clock reads t
ReturnAtOnceAt(o, res, st, caught, t) ==
  /\ op' = o
  /\ calls' = calls + 1
  /\ pc' = "done"
  /\ result' = res
  /\ storage' = st
  /\ faults' = caught
  /\ now' = t
  /\ consumer' = Called(consumer, o)
  /\ UNCHANGED <<execVars, json, geoVars, peers>>
ReturnAtOnce(o, res, st, caught) == ReturnAtOnceAt(o, res, st, caught, now)

CanCall == pc = "idle" /\ calls < MaxCalls

\* the item stored under a logical key, and whether it is an expired entry
Stored(st, key) == st[CACHE_PREFIX \o key]
Expired(item, t) == item # NoItem /\ item # Corrupt /\ ~isCacheValid(item, t)

\* faulty variant: the cache is consulted even on a forced refresh
searchGardenByNumberCacheFirst(number, forceRefresh, mode) ==
  /\ CanCall
  /\ UNCHANGED updateVars
  /\ LET o == [name |-> "search", number |-> number, force |-> forceRefresh,
               held |-> Stored(storage, GARDEN(number)),
               stale |-> Expired(Stored(storage, GARDEN(number)), now)]
         cached == getFromCache(storage, GARDEN(number), now, mode)
     IN IF cached.value # Null
        THEN ReturnAtOnce(o, Value(cached.value), cached.storage, cached.caught)
        ELSE StartFetch(o, DefaultMaxRetries, DefaultRetryDelay, ServiceEnv,
                        cached.storage, cached.caught)

searchGardenByNumber(number, forceRefresh, mode) ==
  /\ CanCall
  /\ UNCHANGED updateVars
  /\ LET o == [name |-> "search", number |-> number, force |-> forceRefresh,
               held |-> Stored(storage, GARDEN(number)),
               stale |-> Expired(Stored(storage, GARDEN(number)), now)]
         cached == IF forceRefresh
                   THEN [value |-> Null, storage |-> storage, caught |-> FALSE]
                   ELSE getFromCache(storage, GARDEN(number), now, mode)
     IN IF cached.value # Null
        THEN ReturnAtOnce(o, Value(cached.value), cached.storage, cached.caught)
        ELSE StartFetch(o, DefaultMaxRetries, DefaultRetryDelay, ServiceEnv,
                        cached.storage, cached.caught)

loadAllGardens(forceRefresh, mode) ==
  /\ CanCall
  /\ UNCHANGED updateVars
  /\ LET o == [name |-> "loadAll", force |-> forceRefresh,
               held |-> Stored(storage, ALL_GARDENS),
               stale |-> Expired(Stored(storage, ALL_GARDENS), now)]
         cached == IF forceRefresh
                   THEN [value |-> Null, storage |-> storage, caught |-> FALSE]
                   ELSE getFromCache(storage, ALL_GARDENS, now, mode)
     IN IF cached.value # Null /\ Len(cached.value.items) > 0
        THEN ReturnAtOnce(o, Value(cached.value), cached.storage, cached.caught)
        ELSE StartFetch(o, DefaultMaxRetries, DefaultRetryDelay, ServiceEnv,
                        cached.storage, cached.caught)

loadGardenByWayId(wayId, forceRefresh, mode) ==
  /\ CanCall
  /\ UNCHANGED updateVars
  /\ LET o == [name |-> "wayId", wayId |-> wayId, force |-> forceRefresh,
               held |-> Stored(storage, GardenWayKey(wayId)),
               stale |-> Expired(Stored(storage, GardenWayKey(wayId)), now)]
         cached == IF forceRefresh
                   THEN [value |-> Null, storage |-> storage, caught |-> FALSE]
                   ELSE getFromCache(storage, GardenWayKey(wayId), now, mode)
     IN IF cached.value # Null
        THEN ReturnAtOnce(o, Value(cached.value), cached.storage, cached.caught)
        ELSE StartFetch(o, DefaultMaxRetries, DefaultRetryDelay, ServiceEnv,
                        cached.storage, cached.caught)

findEnclosingParcel(gardenWay) ==
  /\ CanCall
  /\ UNCHANGED updateVars
  /\ LET o == [name |-> "parcel", way |-> gardenWay]
     IN IF Len(gardenWay.geometry) = 0
        THEN ReturnAtOnce(o, Value(Null), storage, FALSE)
        ELSE StartFetch(o, ParcelMaxRetries, ParcelRetryDelay, ServiceEnv, storage, FALSE)

\* a direct call of the query client
fetchOverpassAPI(maxR, rDelay, e) ==
  /\ CanCall
  /\ UNCHANGED updateVars
  /\ StartFetch([name |-> "execute"], maxR, rDelay, e, storage, FALSE)

\* the request in flight ends: fetch resolves with a status, rejects, or
\* its timeout aborts it; the code runs on to its next await
FetchSettles(o) ==
  /\ pc = "fetch"
  /\ o \in env[srv]
  /\ resp' = IF Recorded(op) THEN o ELSE resp
  /\ LET v == OnOutcome(o, attempt, maxRetries, lastError)
     IN CASE v.act = "return" ->
               /\ execResult' = Value(Answer(o, srv))
               /\ pc' = IF Recorded(op) THEN "done" ELSE "json"
               /\ result' = IF Recorded(op) THEN execResult' ELSE result
               /\ srv' = 0
               /\ attempt' = 0
               /\ lastError' = Null
               /\ UNCHANGED <<delay, reqs, storage, faults>>
          [] v.act = "wait" ->
               /\ pc' = "wait"
               /\ delay' = BackoffDelay(retryDelay, attempt)
               /\ lastError' = v.lastError
               /\ UNCHANGED <<srv, attempt, reqs, storage, execResult, result, faults>>
          [] v.act = "break" ->
               /\ Proceed(op, ServerNext(srv, maxRetries), v.lastError, storage, faults)
               /\ UNCHANGED delay
          [] OTHER ->
               /\ Proceed(op, LoopNext(srv, attempt, maxRetries), v.lastError, storage, faults)
               /\ UNCHANGED delay
  /\ UNCHANGED <<now, calls, op, maxRetries, retryDelay, env, json, updateVars, pageVars>>

\* faulty variant: the promise of the backoff timer is never resolved
BackoffNeverResolves ==
  /\ pc = "wait"
  /\ FALSE
  /\ UNCHANGED vars

\* the backoff timer fires: continue with the next attempt
BackoffElapses ==
  /\ pc = "wait"
  /\ Proceed(op, LoopNext(srv, attempt, maxRetries), lastError, storage, faults)
  /\ delay' = 0
  /\ UNCHANGED <<now, calls, op, maxRetries, retryDelay, resp, env, json, updateVars, pageVars>>

\* response.json() settles and the operation runs to its end, dropping the
\* response
BodyRead(body, mode) ==
  /\ pc = "json"
  /\ body \in (IF op.name = "parcel" THEN ParcelBodies ELSE Bodies \cup RefreshedBodies)
  /\ LET fin == AfterBody(op, body, storage, now, mode)
     IN /\ result' = fin.result
        /\ storage' = fin.storage
        /\ faults' = (faults \/ fin.caught)
  /\ pc' = "done"
  /\ execResult' = NoResult
  /\ json' = body
  /\ UNCHANGED <<now, calls, op, srv, attempt, lastError, maxRetries, retryDelay, resp,
                 delay, env, reqs, updateVars, pageVars>>

\* the callback given to a WithUpdate call: called with a value, or passed
\* over by the then-handler
Invoked(v) == [kind |-> "invoked", val |-> v]
NotInvoked == [kind |-> "skipped"]
IsUpdate(o) == "update" \in DOMAIN o
ThenPending == IsUpdate(op) /\ callback = NoResult

\* JSON.stringify of a geometry: the points in order, each as lat then lon
StringifyGeometry(geometry) == [i \in DOMAIN geometry |-> <<geometry[i].lat, geometry[i].lon>>]

\* faulty variant: onUpdate is called with every result
SearchThenAlways(cached, updatedGarden) == Invoked(updatedGarden)

\* searchGardenByNumberWithUpdate, the handler passed to then
SearchThen(cached, updatedGarden) ==
  IF updatedGarden # Null
     /\ (\/ cached = Null
         \/ cached.id # updatedGarden.id
         \/ StringifyGeometry(cached.geometry) # StringifyGeometry(updatedGarden.geometry))
  THEN Invoked(updatedGarden)
  ELSE IF updatedGarden = Null /\ cached # Null
  THEN Invoked(Null)
  ELSE NotInvoked

\* loadAllGardensWithUpdate, the handler passed to then
LoadAllThen(cached, updatedGardens) ==
  IF \/ Len(updatedGardens) # Len(cached)
     \/ \E i \in DOMAIN updatedGardens : i > Len(cached) \/ cached[i].id # updatedGardens[i].id
  THEN Invoked(List(updatedGardens))
  ELSE NotInvoked

\* Date.now() is read by every cache read (cache.ts:19): what a later read
\* in the same block of code can see
ClockReadings == {t \in {now, now + HourMs} : t <= MaxHours * HourMs}

\* faulty variant: onUpdate is called with the cached value before the
\* function returns
searchGardenByNumberWithUpdateEager(number, mode, later) ==
  /\ CanCall
  /\ later \in ClockReadings
  /\ LET first == getFromCache(storage, GARDEN(number), now, mode)
         cached == getFromCache(first.storage, GARDEN(number), later, mode)
         o == [name |-> "search", number |-> number, force |-> FALSE,
               held |-> Stored(storage, GARDEN(number)),
               stale |-> Expired(Stored(storage, GARDEN(number)), now),
               update |-> TRUE, cached |-> first.value]
     IN /\ returned' = Value(first.value)
        /\ callback' = Invoked(first.value)
        /\ IF cached.value # Null
           THEN ReturnAtOnceAt(o, Value(cached.value), cached.storage,
                               first.caught \/ cached.caught, later)
           ELSE StartFetchAt(o, DefaultMaxRetries, DefaultRetryDelay, ServiceEnv,
                             cached.storage, first.caught \/ cached.caught, later)

\* faulty variant: the background call is made with forceRefresh
searchGardenByNumberWithUpdateForced(number, mode, later) ==
  /\ CanCall
  /\ later \in ClockReadings
  /\ LET first == getFromCache(storage, GARDEN(number), now, mode)
         o == [name |-> "search", number |-> number, force |-> TRUE,
               held |-> Stored(storage, GARDEN(number)),
               stale |-> Expired(Stored(storage, GARDEN(number)), now),
               update |-> TRUE, cached |-> first.value]
     IN /\ returned' = Value(first.value)
        /\ callback' = NoResult
        /\ StartFetchAt(o, DefaultMaxRetries, DefaultRetryDelay, ServiceEnv,
                        first.storage, first.caught, later)

\* searchGardenByNumberWithUpdate(number, onUpdate) up to its return: the
\* cache is read, searchGardenByNumber(number, false) reads it again, with
\* the clock at later, and runs to its first await or its return, the
\* handlers are attached and the cached value is returned
searchGardenByNumberWithUpdate(number, mode, later) ==
  /\ CanCall
  /\ later \in ClockReadings
  /\ LET first == getFromCache(storage, GARDEN(number), now, mode)
         cached == getFromCache(first.storage, GARDEN(number), later, mode)
         o == [name |-> "search", number |-> number, force |-> FALSE,
               held |-> Stored(storage, GARDEN(number)),
               stale |-> Expired(Stored(storage, GARDEN(number)), now),
               update |-> TRUE, cached |-> first.value]
     IN /\ returned' = Value(first.value)
        /\ callback' = NoResult
        /\ IF cached.value # Null
           THEN ReturnAtOnceAt(o, Value(cached.value), cached.storage,
                               first.caught \/ cached.caught, later)
           ELSE StartFetchAt(o, DefaultMaxRetries, DefaultRetryDelay, ServiceEnv,
                             cached.storage, first.caught \/ cached.caught, later)

\* loadAllGardensWithUpdate(onUpdate) up to its return
loadAllGardensWithUpdate(mode, later) ==
  /\ CanCall
  /\ later \in ClockReadings
  /\ LET first == getFromCache(storage, ALL_GARDENS, now, mode)
         list == IF first.value # Null THEN first.value ELSE List(<<>>)
         cached == getFromCache(first.storage, ALL_GARDENS, later, mode)
         o == [name |-> "loadAll", force |-> FALSE,
               held |-> Stored(storage, ALL_GARDENS),
               stale |-> Expired(Stored(storage, ALL_GARDENS), now),
               update |-> TRUE, cached |-> list]
     IN /\ returned' = Value(list)
        /\ callback' = NoResult
        /\ IF cached.value # Null /\ Len(cached.value.items) > 0
           THEN ReturnAtOnceAt(o, Value(cached.value), cached.storage,
                               first.caught \/ cached.caught, later)
           ELSE StartFetchAt(o, DefaultMaxRetries, DefaultRetryDelay, ServiceEnv,
                             cached.storage, first.caught \/ cached.caught, later)

\* the promise of the background call has settled and its handler runs: the
\* then-handler on a value, the catch-handler, which only logs, on a rejection
UpdateSettles ==
  /\ pc = "done"
  /\ ThenPending
  /\ callback' = IF result.kind # "value" THEN NotInvoked
                 ELSE IF op.name = "search" THEN SearchThen(op.cached, result.val)
                 ELSE LoadAllThen(op.cached.items, result.val.items)
  /\ UNCHANGED <<storage, now, calls, pc, op, result, faults, execVars, json, returned, pageVars>>

\* the caller takes the result
Return ==
  /\ pc = "done"
  /\ ~ThenPending
  /\ pc' = "idle"
  /\ op' = NoOp
  /\ result' = NoResult
  /\ faults' = FALSE
  /\ srv' = 0
  /\ attempt' = 0
  /\ lastError' = Null
  /\ maxRetries' = 0
  /\ retryDelay' = 0
  /\ resp' = NoOutcome
  /\ delay' = 0
  /\ execResult' = NoResult
  /\ env' = AnyEnv
  /\ reqs' = <<>>
  /\ json' = NoOutcome
  /\ returned' = NoResult
  /\ callback' = NoResult
  /\ UNCHANGED <<storage, now, calls, pageVars>>

\* time passes, between operations or while a request is in flight
Tick ==
  /\ pc \in {"idle", "fetch"}
  /\ now + HourMs <= MaxHours * HourMs
  /\ now' = now + HourMs
  /\ UNCHANGED <<storage, calls, pc, op, result, faults, execVars, json, updateVars, pageVars>>

Next ==
  \/ \E n \in Numbers, f \in BOOLEAN, m \in StorageModes : searchGardenByNumber(n, f, m)
  \/ \E f \in BOOLEAN, m \in StorageModes : loadAllGardens(f, m)
  \/ \E w \in WayIds, f \in BOOLEAN, m \in StorageModes : loadGardenByWayId(w, f, m)
  \/ \E g \in GardenInputs : findEnclosingParcel(g)
  \/ \E o \in Outcomes : FetchSettles(o)
  \/ BackoffElapses
  \/ \E b \in Bodies \cup ParcelBodies, m \in StorageModes : BodyRead(b, m)
  \/ Return
  \/ Tick

Spec == Init /\ [][Next]_vars

\* the query client alone, called with the arguments its callers pass
ExecArgs == {<<DefaultMaxRetries, DefaultRetryDelay>>, <<ParcelMaxRetries, ParcelRetryDelay>>}
NextExec ==
  \/ \E a \in ExecArgs, e \in {AnyEnv, OverloadedThenHealthy} : fetchOverpassAPI(a[1], a[2], e)
  \/ \E o \in Outcomes : FetchSettles(o)
  \/ BackoffElapses
  \/ Return

SpecExec == Init /\ [][NextExec]_vars

\* the query client called with any number of attempts per endpoint from 0
\* on; a request in flight eventually resolves, rejects or is aborted by its
\* timeout (setTimeout, osm.ts:78), and a backoff timer eventually fires
RetryCounts == 0..DefaultMaxRetries
NextTerm ==
  \/ \E r \in RetryCounts : fetchOverpassAPI(r, DefaultRetryDelay, AnyEnv)
  \/ \E o \in Outcomes : FetchSettles(o)
  \/ BackoffElapses
  \/ Return
SpecTerm ==
  /\ Init
  /\ [][NextTerm]_vars
  /\ WF_vars(\E o \in Outcomes : FetchSettles(o))
  /\ WF_vars(BackoffElapses)

(***************************************************************************)
(* Two calls of searchGardenByNumber(number, false) that overlap: each      *)
(* runs from one await to the next in one step, on the shared localStorage *)
(* (which works: mode "ok") and clock                                      *)
(***************************************************************************)
PairNumber == "1050"
MinuteMs == 60 * 1000
\* what the service answers a peer: way 1, way 1 redrawn, or nothing
PairBodies == {NoElements, [kind |-> "object", elements |-> <<W1>>],
               [kind |-> "object", elements |-> <<W1b>>]}
pairFrame == <<calls, pc, op, result, faults, execVars, json, updateVars, consumer, geoVars>>

\* fetchOverpassAPI of caller c reaches position pos with lastError err
PeerProceed(c, pos, err, st, t) ==
  IF pos = Exhausted
  THEN LET fin == SearchCatch(Thrown(err), PairNumber, st, t, "ok")
       IN [call |-> [c EXCEPT !.pc = "done", !.srv = 0, !.attempt = 0, !.lastError = Null,
                              !.result = fin.result],
           storage |-> fin.storage]
  ELSE [call |-> [c EXCEPT !.pc = "fetch", !.srv = pos.srv, !.attempt = pos.attempt,
                           !.lastError = err, !.sent = @ + 1],
        storage |-> st]

\* caller i calls searchGardenByNumber(PairNumber): the cache check and, on
\* a miss, the first request
PeerCall(i) ==
  /\ peers.call[i].pc = "idle"
  /\ LET cached == getFromCache(storage, GARDEN(PairNumber), now, "ok")
         next == IF cached.value # Null
                 THEN [call |-> [peers.call[i] EXCEPT !.pc = "done",
                                                      !.result = Value(cached.value)],
                       storage |-> cached.storage]
                 ELSE PeerProceed(peers.call[i], FirstRequest(DefaultMaxRetries), Null,
                                  cached.storage, now)
     IN /\ peers' = [peers EXCEPT !.call[i] = next.call]
        /\ storage' = next.storage
  /\ UNCHANGED <<now, pairFrame>>

\* the request of caller i ends with outcome o
PeerFetchSettles(i, o) ==
  /\ peers.call[i].pc = "fetch"
  /\ o \in ServiceEnv[peers.call[i].srv]
  /\ LET c == peers.call[i]
         v == OnOutcome(o, c.attempt, DefaultMaxRetries, c.lastError)
         next ==
           CASE v.act = "return" ->
                  [call |-> [c EXCEPT !.pc = "json", !.srv = 0, !.attempt = 0,
                                      !.lastError = Null],
                   storage |-> storage]
             [] v.act = "wait" ->
                  [call |-> [c EXCEPT !.pc = "wait", !.lastError = v.lastError],
                   storage |-> storage]
             [] v.act = "break" ->
                  PeerProceed(c, ServerNext(c.srv, DefaultMaxRetries), v.lastError, storage, now)
             [] OTHER ->
                  PeerProceed(c, LoopNext(c.srv, c.attempt, DefaultMaxRetries), v.lastError,
                              storage, now)
     IN /\ peers' = [peers EXCEPT !.call[i] = next.call]
        /\ storage' = next.storage
  /\ UNCHANGED <<now, pairFrame>>

\* the backoff timer of caller i fires
PeerBackoffElapses(i) ==
  /\ peers.call[i].pc = "wait"
  /\ LET c == peers.call[i]
         next == PeerProceed(c, LoopNext(c.srv, c.attempt, DefaultMaxRetries), c.lastError,
                             storage, now)
     IN /\ peers' = [peers EXCEPT !.call[i] = next.call]
        /\ storage' = next.storage
  /\ UNCHANGED <<now, pairFrame>>

\* response.json() of caller i settles and its call runs to the end
PeerBodyRead(i, body) ==
  /\ peers.call[i].pc = "json"
  /\ LET fin == SearchBody(body, PairNumber, storage, now, "ok")
         stores == HasElements(body) /\ Len(body.elements) > 0
     IN /\ peers' = [peers EXCEPT !.call[i] = [@ EXCEPT !.pc = "done", !.result = fin.result,
                                                        !.at = IF stores THEN now ELSE @],
                                  !.last = IF stores THEN i ELSE @]
        /\ storage' = fin.storage
  /\ UNCHANGED <<now, pairFrame>>

\* a minute passes
PairTick ==
  /\ now + MinuteMs <= MaxHours * MinuteMs
  /\ now' = now + MinuteMs
  /\ UNCHANGED <<storage, peers, pairFrame>>

NextPair ==
  \/ \E i \in 1..2 : PeerCall(i)
  \/ \E i \in 1..2, o \in Outcomes : PeerFetchSettles(i, o)
  \/ \E i \in 1..2 : PeerBackoffElapses(i)
  \/ \E i \in 1..2, b \in PairBodies : PeerBodyRead(i, b)
  \/ PairTick

SpecPair == Init /\ [][NextPair]_vars

\* the WithUpdate functions and the background calls they start
NextUpdate ==
  \/ \E n \in Numbers, m \in StorageModes, t \in TimeValues :
       searchGardenByNumberWithUpdate(n, m, t)
  \/ \E m \in StorageModes, t \in TimeValues : loadAllGardensWithUpdate(m, t)
  \/ \E o \in Outcomes : FetchSettles(o)
  \/ BackoffElapses
  \/ \E b \in Bodies \cup RefreshedBodies, m \in StorageModes : BodyRead(b, m)
  \/ UpdateSettles
  \/ Return
  \/ Tick

SpecUpdate == Init /\ [][NextUpdate]_vars

(***************************************************************************)
(* The pages and the service                                               *)
(***************************************************************************)
serviceVars == <<storage, now, calls, pc, op, result, faults, execVars, json, updateVars>>
Consent == consumer.cookiePreferences.openStreetMap

\* a page is mounted: its state starts without consent, and its effects run
\* once in that state; the effect that reads the cookies sets the state
Mount(page) ==
  /\ consumer.page = "none"
  /\ LET preferences == IF page = "home" THEN AppInitialPreferences(consumer.cookies)
                        ELSE loadCookiePreferences(consumer.cookies)
     IN consumer' = [page |-> page, cookies |-> consumer.cookies,
                     cookiePreferences |-> preferences,
                     effects |-> IF preferences.openStreetMap THEN EffectsOf(page) ELSE {},
                     lookup |-> IF page = "home" THEN "none" ELSE "skipped",
                     loop |-> FALSE]
  /\ UNCHANGED <<serviceVars, geoVars, peers>>

\* the banner reports a choice
ConsentChange(preferences) ==
  /\ consumer.page \in {"home", "garden"}
  /\ consumer.effects = {}
  /\ LET next == handleConsentChange(preferences)
     IN consumer' = [consumer EXCEPT
                       !.cookies = BannerCookies(consumer.cookies, preferences),
                       !.cookiePreferences = next,
                       !.effects = IF next.openStreetMap # Consent
                                   THEN EffectsOf(consumer.page) ELSE {},
                       !.lookup = IF next.openStreetMap # Consent
                                  THEN "none" ELSE consumer.lookup]
  /\ UNCHANGED <<serviceVars, geoVars, peers>>

\* an effect runs without consent: it returns at once, with no plot
EffectSkipped(effect) ==
  /\ effect \in consumer.effects
  /\ ~Consent
  /\ consumer' = [consumer EXCEPT !.effects = consumer.effects \ {effect},
                                  !.lookup = "skipped"]
  /\ UNCHANGED <<serviceVars, geoVars, peers>>

\* App and GardenPage, the effect that loads all gardens
RegionEffect(mode, later) ==
  /\ "region" \in consumer.effects
  /\ Consent
  /\ loadAllGardensWithUpdate(mode, later)

\* GardenPage, the effect that loads the garden of the route
GardenEffect(number, mode) ==
  /\ "garden" \in consumer.effects
  /\ Consent
  /\ searchGardenByNumber(number, FALSE, mode)

\* the comparison page, loadComparisons
CompareEffect(mode) ==
  /\ "compare" \in consumer.effects
  /\ Consent
  /\ loadAllGardens(FALSE, mode)

\* the comparison page, the single search for a garden the list lacks
CompareFallback(number, mode) ==
  /\ consumer.page = "compare"
  /\ consumer.loop
  /\ searchGardenByNumber(number, FALSE, mode)

\* App, handleSearch for a number the registry does not know
handleSearch(number, mode, later) ==
  /\ consumer.page = "home"
  /\ consumer.effects = {}
  /\ IF Consent
     THEN searchGardenByNumberWithUpdate(number, mode, later)
     ELSE /\ consumer' = [consumer EXCEPT !.lookup = "skipped"]
          /\ UNCHANGED <<serviceVars, geoVars, peers>>

\* the route changes and the page goes away; a call in progress runs on
Unmount ==
  /\ consumer.page # "none"
  /\ consumer' = [NoConsumer EXCEPT !.cookies = consumer.cookies]
  /\ UNCHANGED <<serviceVars, geoVars, peers>>

InitConsent ==
  /\ Idle
  /\ storage = EmptyStorage
  /\ \E c \in Cookies : consumer = [NoConsumer EXCEPT !.cookies = c]

NextConsent ==
  \/ \E p \in Pages : Mount(p)
  \/ \E c \in Preferences : ConsentChange(c)
  \/ \E e \in {"region", "garden", "compare"} : EffectSkipped(e)
  \/ \E t \in TimeValues : RegionEffect("ok", t)
  \/ \E n \in Numbers : GardenEffect(n, "ok")
  \/ CompareEffect("ok")
  \/ \E n \in Numbers : CompareFallback(n, "ok")
  \/ \E n \in Numbers, t \in TimeValues : handleSearch(n, "ok", t)
  \/ Unmount
  \/ \E o \in {Response(200), Response(503)} : FetchSettles(o)
  \/ BackoffElapses
  \/ \E b \in {NoElements, [kind |-> "object", elements |-> <<W1>>]} : BodyRead(b, "ok")
  \/ UpdateSettles
  \/ Return

SpecConsent == InitConsent /\ [][NextConsent]_vars

(***************************************************************************)
(* The geometry functions, called directly                                 *)
(***************************************************************************)
\* longest vertex list handed to a geometry function
MaxRing == 4
LatGrid == {2, 4}
LonGrid == {2, 4, 6}
GridPoints == {Pt(lat, lon) : lat \in LatGrid, lon \in LonGrid}
Rings == UNION {[1..k -> GridPoints] : k \in 0..MaxRing}
\* a way whose answer carried no geometry member
WMissing == [kind |-> "way", id |-> 5, tags |-> [ref |-> "1053"]]
\* a way of a single vertex: its area is 0
WPoint == Way(6, [ref |-> "1054"], <<Pt(2, 2)>>)
\* ways with a point outside the valid ranges
WInvalid == Way(7, [ref |-> "1055"], <<Pt(2, 2), Pt(2, 4), Pt(4, 4), Pt(4, 181)>>)
WAllInvalid == Way(8, [ref |-> "1056"], <<Pt(91, 4)>>)
MergeWays == {W1, W1b, W2, W3, WNoGeometry, WMissing, WPoint, WInvalid, WAllInvalid}
\* registry records (Partial<Garden>), or none
MockRecords ==
  {Undefined,
   [parcel |-> Str("X"), size |-> 300],
   [parcel |-> Str(""), size |-> 0],
   [size |-> 250],
   [parcel |-> Str("X")]}
EnclosingParcels == {Undefined, Null, Str(""), Str("Y")}
\* one call of a geometry function is followed
NoGeoCall == geoArgs = NoResult
geoFrame == <<storage, now, calls, pc, op, result, faults, execVars, json, updateVars, consumer,
             peers>>

CallOsmWayToGarden(osmWay, mockData, enclosingParcel) ==
  /\ NoGeoCall
  /\ geoArgs' = [fn |-> "osmWayToGarden", osmWay |-> osmWay, mockData |-> mockData,
                 enclosingParcel |-> enclosingParcel]
  /\ geoResult' = osmWayToGarden(osmWay, mockData, enclosingParcel)
  /\ UNCHANGED geoFrame

CallCalculatePolygonArea(geometry) ==
  /\ NoGeoCall
  /\ geoArgs' = [fn |-> "calculatePolygonArea", geometry |-> geometry]
  /\ geoResult' = Value(calculatePolygonArea(geometry))
  /\ UNCHANGED geoFrame

\* elements the parcel query may answer with, around the garden W1
\* (centre (3, 3), approximate area 4)
PSiteSmall == Way(13, [landuse |-> "allotments", name |-> "Klostergaerten"],
                  <<Pt(0, 0), Pt(0, 8), Pt(8, 8), Pt(8, 0)>>)
PPlotBig == Way(14, [allotments |-> "plot", name |-> "Klostergaerten 2"],
                <<Pt(0, 0), Pt(0, 6), Pt(8, 6), Pt(8, 0)>>)
PNameless == Way(15, [allotments |-> "site"],
                 <<Pt(0, 0), Pt(0, 8), Pt(10, 8), Pt(10, 0)>>)
PTiny == Way(16, [allotments |-> "plot", name |-> "Beet 7"],
             <<Pt(2, 2), Pt(2, 5), Pt(4, 5), Pt(4, 2)>>)
CandidateElems == ParcelElems \cup {PSiteSmall, PPlotBig, PNameless, PTiny}
MaxElements == 3
\* data.elements: the elements in any order, none twice
CandidateLists ==
  UNION {{l \in [1..k -> CandidateElems] : \A i, j \in 1..k : l[i] = l[j] => i = j}
           : k \in 1..MaxElements}

\* findEnclosingParcel on a parsed, non-empty element list
CallSelectParcel(gardenWay, elements) ==
  /\ NoGeoCall
  /\ geoArgs' = [fn |-> "findEnclosingParcel", gardenWay |-> gardenWay, elements |-> elements]
  /\ geoResult' = Value(SelectParcel(gardenWay, elements))
  /\ UNCHANGED geoFrame

\* geometries with a point outside the valid ranges
InvalidRings ==
  {<<Pt(91, 4)>>, <<Pt(4, 181)>>, <<Pt(2, 2), Pt(4, 181)>>,
   <<Pt(2, 2), Pt(2, 4), Pt(91, 4)>>,
   <<Pt(2, 2), Pt(2, 4), Pt(4, 4), Pt(4, 181)>>}
\* geometries whose centre is asked for
CenterRings == {<<>>, <<Pt(2, 2)>>, <<Pt(2, 2), Pt(4, 6)>>, <<Pt(2, 2), Pt(2, 4), Pt(4, 4)>>} \cup InvalidRings
MaxGardens == 2
GardenLists == UNION {[1..k -> {W1, W2, WMissing, WNoGeometry, WInvalid, WAllInvalid}] : k \in 0..MaxGardens}
\* boxes and paddings, in ten-thousandths of a degree and percent
BoxLats == {521500, 522500, 523000, 523300, 523400}
BoxLons == {79000, 80000, 80500, 81200}
Paddings == {0, 10, 50}

CallCalculateGardensBounds(allGardens) ==
  /\ NoGeoCall
  /\ geoArgs' = [fn |-> "calculateGardensBounds", allGardens |-> allGardens]
  /\ geoResult' = Value(calculateGardensBounds(allGardens))
  /\ UNCHANGED geoFrame

CallCalculateGeometryCenter(geometry) ==
  /\ NoGeoCall
  /\ geoArgs' = [fn |-> "calculateGeometryCenter", geometry |-> geometry]
  /\ geoResult' = Value(calculateGeometryCenter(geometry))
  /\ UNCHANGED geoFrame

CallApplyBoundsPadding(minLat, maxLat, minLon, maxLon, paddingPercent) ==
  /\ NoGeoCall
  /\ minLat <= maxLat
  /\ minLon <= maxLon
  /\ geoArgs' = [fn |-> "applyBoundsPadding", minLat |-> minLat, maxLat |-> maxLat,
                 minLon |-> minLon, maxLon |-> maxLon, paddingPercent |-> paddingPercent]
  /\ geoResult' = Value(applyBoundsPadding(minLat, maxLat, minLon, maxLon, paddingPercent))
  /\ UNCHANGED geoFrame

InitGeo == Idle /\ storage = EmptyStorage /\ consumer = NoConsumer

NextGeo ==
  \/ \E w \in MergeWays, m \in MockRecords, e \in EnclosingParcels : CallOsmWayToGarden(w, m, e)
  \/ \E g \in Rings \cup InvalidRings : CallCalculatePolygonArea(g)
  \/ \E g \in CenterRings : CallCalculateGeometryCenter(g)
  \/ \E l \in GardenLists : CallCalculateGardensBounds(l)
  \/ \E minLat, maxLat \in BoxLats, minLon, maxLon \in BoxLons, p \in Paddings :
       CallApplyBoundsPadding(minLat, maxLat, minLon, maxLon, p)
  \/ \E l \in CandidateLists : CallSelectParcel(W1, l)

SpecGeo == InitGeo /\ [][NextGeo]_vars

(***************************************************************************)
(* utils/cache.ts called directly: each call is one synchronous step       *)
(***************************************************************************)
MaxCacheCalls == 3
CacheOpKeys == {ALL_GARDENS, GARDEN("1050")}
Payloads == {W1, W2}
Ttls == {ALL_GARDENS_TTL, GARDEN_TTL}
CanCallCache == pc = "idle" /\ calls < MaxCacheCalls
InitCache ==
  /\ Idle
  /\ consumer = NoConsumer
  /\ storage = [k \in DOMAIN EmptyStorage |-> IF k \in ForeignKeys THEN Setting ELSE NoItem]
cacheFrame == <<now, pc, execVars, json, updateVars, pageVars>>

CallGetFromCache(key, mode) ==
  /\ CanCallCache
  /\ LET got == getFromCache(storage, key, now, mode)
     IN /\ result' = Value(got.value)
        /\ storage' = got.storage
        /\ faults' = got.caught
  /\ op' = [name |-> "get", key |-> key, mode |-> mode]
  /\ calls' = calls + 1
  /\ UNCHANGED cacheFrame

CallSetCache(key, data, ttl, mode) ==
  /\ CanCallCache
  /\ storage' = setCache(storage, key, data, ttl, now, mode)
  /\ faults' = setCacheCaught(mode)
  /\ result' = Value(Null)
  /\ op' = [name |-> "set", key |-> key, data |-> data, ttl |-> ttl, mode |-> mode,
            held |-> Stored(storage, key)]
  /\ calls' = calls + 1
  /\ UNCHANGED cacheFrame

CallClearCache(mode) ==
  /\ CanCallCache
  /\ storage' = clearCache(storage, mode)
  /\ faults' = (mode = "unavailable")
  /\ result' = Value(Null)
  /\ op' = [name |-> "clear", mode |-> mode,
            present |-> {k \in DOMAIN storage : storage[k] # NoItem}]
  /\ calls' = calls + 1
  /\ UNCHANGED cacheFrame

CallClearGardenCache(number, mode) ==
  /\ CanCallCache
  /\ storage' = clearGardenCache(storage, number, mode)
  /\ faults' = (mode = "unavailable")
  /\ result' = Value(Null)
  /\ op' = [name |-> "clearGarden", number |-> number, mode |-> mode,
            held |-> Stored(storage, GARDEN(number))]
  /\ calls' = calls + 1
  /\ UNCHANGED cacheFrame

\* another writer leaves a blob under a cache key that JSON.parse rejects
BlobCorrupted(key) ==
  /\ pc = "idle"
  /\ calls < MaxCacheCalls
  /\ storage[CACHE_PREFIX \o key] # Corrupt
  /\ storage' = [storage EXCEPT ![CACHE_PREFIX \o key] = Corrupt]
  /\ UNCHANGED <<calls, op, result, faults, cacheFrame>>

NextCache ==
  \/ \E k \in CacheOpKeys, m \in StorageModes : CallGetFromCache(k, m)
  \/ \E k \in CacheOpKeys, d \in Payloads, t \in Ttls, m \in StorageModes :
       CallSetCache(k, d, t, m)
  \/ \E m \in StorageModes : CallClearCache(m)
  \/ \E n \in Numbers, m \in StorageModes : CallClearGardenCache(n, m)
  \/ \E k \in CacheOpKeys : BlobCorrupted(k)
  \/ Tick

SpecCache == InitCache /\ [][NextCache]_vars

(***************************************************************************)
(* Properties                                                              *)
(***************************************************************************)
ServiceOps == {"search", "loadAll", "wayId", "parcel"}
OverloadAnswers == {Response(503), Response(504)}
\* the error fetchOverpassAPI builds from, or catches for, a failed request
ErrorOf(o) == IF IsResponse(o) THEN HttpError(o.status) ELSE o
\* this step sends exactly one request, to server s as its attempt a
Sends(s, a) ==
  /\ pc' = "fetch"
  /\ srv' = s
  /\ attempt' = a
  /\ Len(reqs') = Len(reqs) + 1
  /\ reqs'[Len(reqs')].srv = s
  /\ reqs'[Len(reqs')].attempt = a
\* this step leaves server srv: the next request goes to the next server's
\* attempt 0, or there is no further request and the call ends
Advances ==
  IF srv < NumServers THEN Sends(srv + 1, 0)
  ELSE pc' = "done" /\ reqs' = reqs
\* this step starts the backoff timer of the current attempt, sending nothing
Waits ==
  /\ pc' = "wait"
  /\ delay' = retryDelay * 2^attempt
  /\ srv' = srv
  /\ attempt' = attempt
  /\ reqs' = reqs
NeverBack == \A i, j \in DOMAIN reqs : i < j => reqs[i].srv <= reqs[j].srv

\* C1: when searchGardenByNumber(n) is called without forceRefresh while
\* storage holds an expired entry for garden_<n>, every request fails and
\* storage works throughout, the call returns the payload of that entry.
C1_StaleFallbackOnOutage ==
  (/\ pc = "done"
   /\ op.name = "search"
   /\ ~op.force
   /\ op.stale
   /\ ~faults
   /\ execResult.kind = "throw")
  => result = Value(op.held.data)

\* C2: searchGardenByNumber, loadAllGardens, loadGardenByWayId and
\* findEnclosingParcel always complete with a value (a way, a list, a name
\* or null), never with a thrown error, whatever the endpoints answer, the
\* body holds and storage does.
C2_NoFailureEscapes ==
  (pc = "done" /\ op.name \in ServiceOps)
  => /\ result.kind = "value"
     /\ op.name = "loadAll" => result.val.kind = "list"
C2_Witness ==
  /\ pc = "done"
  /\ op.name = "search"
  /\ execResult.kind = "throw"
  /\ execResult.val = NetworkError
  /\ faults
  /\ result = Value(Null)

\* C3: when the first endpoint answers 503 to every request and the second
\* answers 200, fetchOverpassAPI returns the second endpoint's response
\* after exactly maxRetries requests to the first endpoint followed by one
\* request to the second.
C3_RetryThenFallback ==
  (pc = "done" /\ op.name = "execute" /\ env = OverloadedThenHealthy)
  => /\ execResult = Value([status |-> 200, url |-> OVERPASS_API_SERVERS[2]])
     /\ Len(reqs) = maxRetries + 1
     /\ \A i \in 1..maxRetries : reqs[i].srv = 1 /\ reqs[i].attempt = i - 1
     /\ reqs[maxRetries + 1].srv = 2
C3_Witness ==
  /\ pc = "done"
  /\ op.name = "execute"
  /\ env = OverloadedThenHealthy
  /\ maxRetries = DefaultMaxRetries
  /\ Len(reqs) = DefaultMaxRetries + 1

\* C4: within one call of fetchOverpassAPI the requests follow the order of
\* OVERPASS_API_SERVERS: the first goes to the first endpoint, each later
\* one to the endpoint of the request before it or to that endpoint's
\* successor, and none to an endpoint left earlier.
C4_FixedOrder ==
  /\ Len(reqs) > 0 => reqs[1].srv = 1
  /\ \A i \in DOMAIN reqs :
       i > 1 => reqs[i].srv \in {reqs[i - 1].srv, reqs[i - 1].srv + 1}
  /\ \A i \in DOMAIN reqs : \A j \in DOMAIN reqs :
       (i < j /\ reqs[i].srv # reqs[j].srv) => reqs[i].srv < reqs[j].srv
C4_Witness ==
  /\ Len(reqs) >= NumServers
  /\ \A s \in Servers : \E i \in DOMAIN reqs : reqs[i].srv = s
  /\ reqs[Len(reqs)].attempt = 1

\* C5: in one call of fetchOverpassAPI every endpoint receives at most
\* maxRetries requests, so the call sends at most
\* (number of endpoints) * maxRetries requests.
C5_AttemptBound ==
  op.name = "execute"
  => /\ \A s \in Servers :
          Cardinality({i \in DOMAIN reqs : reqs[i].srv = s}) <= maxRetries
     /\ Len(reqs) <= NumServers * maxRetries
C5_Witness ==
  /\ op.name = "execute"
  /\ maxRetries = DefaultMaxRetries
  /\ Len(reqs) = NumServers * DefaultMaxRetries
  /\ \E i \in DOMAIN reqs : reqs[i].timeout = RetryTimeoutMs

\* C6: a 503 or 504 on attempt k of an endpoint, with attempts remaining,
\* starts a wait of exactly retryDelay * 2^k, after which the next request
\* goes to the same endpoint as attempt k + 1; a request to another
\* endpoint is that endpoint's attempt 0; no wait follows the last attempt.
C6_BackoffStep ==
  /\ (pc = "fetch" /\ resp' \in OverloadAnswers /\ attempt + 1 < maxRetries) => Waits
  /\ pc = "wait" => Sends(srv, attempt + 1)
  /\ (pc' = "fetch" /\ srv' # srv) => attempt' = 0
  /\ (pc = "fetch" /\ attempt + 1 >= maxRetries) => pc' # "wait"
C6_ExponentialBackoff == [][C6_BackoffStep]_vars
C6_Witness ==
  /\ pc = "wait"
  /\ resp \in OverloadAnswers
  /\ srv = 2
  /\ attempt = 1
  /\ retryDelay = DefaultRetryDelay
  /\ maxRetries = DefaultMaxRetries
  /\ delay = 2 * DefaultRetryDelay

\* C7: a response whose status is neither a success nor 503/504 ends the
\* requests to its endpoint at once, and so does a 503/504 on the last
\* attempt: the next request, if there is one, is attempt 0 of the next
\* endpoint, and no later request goes back to an endpoint left before.
C7_AbandonStep ==
  (/\ pc = "fetch"
   /\ IsResponse(resp')
   /\ resp' # Response(200)
   /\ (resp' \notin OverloadAnswers \/ attempt + 1 >= maxRetries))
  => Advances
C7_AbandonsEndpoint == [][C7_AbandonStep]_vars /\ []NeverBack
C7_Witness ==
  /\ pc = "fetch"
  /\ resp = Response(404)
  /\ srv = 2
  /\ attempt = 0
  /\ maxRetries = DefaultMaxRetries
  /\ Len(reqs) = 2

\* C8: a request aborted by its timeout is treated as a 503/504 is: with
\* attempts remaining the client waits retryDelay * 2^attempt and sends
\* the next attempt to the same endpoint, otherwise it goes on to the next
\* endpoint.
C8_TimeoutStep ==
  /\ (pc = "fetch" /\ resp' = AbortError)
       => IF attempt + 1 < maxRetries THEN Waits ELSE Advances
  /\ (pc = "wait" /\ resp = AbortError) => Sends(srv, attempt + 1)
C8_TimeoutLikeOverload == [][C8_TimeoutStep]_vars
C8_Witness ==
  /\ pc = "wait"
  /\ resp = AbortError
  /\ srv = 1
  /\ attempt = 1
  /\ delay = 2 * DefaultRetryDelay

\* C9: once a request is answered with a success status the call is over:
\* fetchOverpassAPI returns that response, from the endpoint that gave it,
\* and the step that receives it sends no request.
C9_SuccessStep ==
  (pc = "fetch" /\ resp' = Response(200))
  => /\ pc' = "done"
     /\ reqs' = reqs
     /\ execResult' = Value([status |-> 200, url |-> OVERPASS_API_SERVERS[srv]])
C9_FirstSuccessReturns ==
  /\ [][C9_SuccessStep]_vars
  /\ [](resp = Response(200) => pc = "done" /\ execResult.kind = "value")
C9_Witness ==
  /\ pc = "done"
  /\ resp = Response(200)
  /\ Len(reqs) = 5
  /\ execResult = Value([status |-> 200, url |-> OVERPASS_API_SERVERS[3]])

\* C10: fetchOverpassAPI throws exactly when its last request, hence every
\* request, failed; the error thrown is the one of that last request; and
\* a call completes once, its outcome never changing afterwards.
C10_Outcome ==
  (pc = "done" /\ op.name = "execute")
  => /\ execResult.kind \in {"value", "throw"}
     /\ execResult.kind = "throw" <=> resp # Response(200)
     /\ execResult.kind = "throw" => execResult.val = ErrorOf(resp)
     /\ Len(reqs) > 0
C10_OnceStep ==
  /\ pc # "done" => (execResult = NoResult /\ resp # Response(200))
  /\ pc = "done" => (pc' = "idle" /\ execResult' = NoResult)
C10_TotalFailure == []C10_Outcome /\ [][C10_OnceStep]_vars
C10_Witness ==
  /\ pc = "done"
  /\ op.name = "execute"
  /\ execResult = Raised(AbortError)
  /\ maxRetries = DefaultMaxRetries
  /\ Len(reqs) = 1 + 1 + DefaultMaxRetries + DefaultMaxRetries

\* C11: when an endpoint other than the last answers with a success status
\* and a body that cannot be parsed, the endpoint is abandoned and the next
\* step of the operation is a request to the next endpoint.
C11_MalformedStep ==
  (/\ pc = "json"
   /\ json' = Malformed
   /\ execResult.val.url # OVERPASS_API_SERVERS[NumServers])
  => pc' = "fetch"
C11_MalformedBodyFallsBack == [][C11_MalformedStep]_vars

\* the step is a direct call of the named cache function
CacheCall(name) == calls' = calls + 1 /\ op'.name = name
\* the storage key the call is about, and what it held before the call
KeyOf(o) == CACHE_PREFIX \o o.key
IsEntry(item) == item.kind = "entry"

\* C12: a read of a key that holds an entry returns the entry's payload
\* exactly while now - timestamp < ttl and null from then on, and it leaves
\* the entry in storage, where the fallback read of the error path still
\* finds it.
C12_TtlStep ==
  (/\ CacheCall("get")
   /\ op'.mode = "ok"
   /\ IsEntry(storage[KeyOf(op')]))
  => /\ result' = IF now - storage[KeyOf(op')].timestamp < storage[KeyOf(op')].ttl
                  THEN Value(storage[KeyOf(op')].data)
                  ELSE Value(Null)
     /\ storage'[KeyOf(op')] = storage[KeyOf(op')]
C12_TtlAndStaleRead == [][C12_TtlStep]_vars

\* C13: a write that succeeds leaves under its key exactly the entry made
\* of the new payload, the time of this write and the new TTL, whatever
\* the key held before, and touches no other key; a later read returns
\* that payload, valid from this write for this TTL.
C13_ReplaceStep ==
  /\ (CacheCall("set") /\ op'.mode = "ok")
       => /\ storage'[KeyOf(op')] = [kind |-> "entry", data |-> op'.data,
                                     timestamp |-> now, ttl |-> op'.ttl]
          /\ \A k \in DOMAIN storage : k # KeyOf(op') => storage'[k] = storage[k]
  /\ (CacheCall("get") /\ op'.mode = "ok" /\ IsEntry(storage[KeyOf(op')]))
       => result' = IF now - storage[KeyOf(op')].timestamp < storage[KeyOf(op')].ttl
                    THEN Value(storage[KeyOf(op')].data)
                    ELSE Value(Null)
C13_SetReplaces == [][C13_ReplaceStep]_vars
C13_Witness ==
  /\ op.name = "set"
  /\ op.mode = "ok"
  /\ IsEntry(op.held)
  /\ op.held.data # op.data
  /\ op.held.ttl > op.ttl
  /\ op.held.timestamp < now
  /\ storage[KeyOf(op)] = [kind |-> "entry", data |-> op.data, timestamp |-> now,
                           ttl |-> op.ttl]

\* what the eviction of setCache removes: a blob under the cache prefix
\* that cannot be parsed or whose entry has expired
Evictable(k, item, t) ==
  /\ k \notin ForeignKeys
  /\ \/ item = Corrupt
     \/ IsEntry(item) /\ t - item.timestamp >= item.ttl
NewEntry(o, t) == [kind |-> "entry", data |-> o.data, timestamp |-> t, ttl |-> o.ttl]
QuotaHit(o) == o.mode \in {"full", "fullUntilEvict"}

\* C14 as stated: when the first write of setCache fails, every expired or
\* unparsable cache entry is removed, every valid entry and every foreign
\* key is kept, the write is retried once, and when the retry fails too
\* the key keeps the entry it held before, whatever that was.
C14_StatedStep ==
  (CacheCall("set") /\ QuotaHit(op'))
  => \A k \in DOMAIN storage :
       IF k = KeyOf(op')
       THEN storage'[k] = IF op'.mode = "fullUntilEvict" THEN NewEntry(op', now)
                          ELSE storage[k]
       ELSE storage'[k] = IF Evictable(k, storage[k], now) THEN NoItem ELSE storage[k]
C14_Stated == [][C14_StatedStep]_vars

\* C14, amended: as stated, except that when the retry fails too the key
\* keeps its previous entry only if that entry is still valid; an expired
\* or unparsable one is evicted like those of the other keys.
C14_AmendedStep ==
  (CacheCall("set") /\ QuotaHit(op'))
  => \A k \in DOMAIN storage :
       storage'[k] =
         IF k = KeyOf(op') /\ op'.mode = "fullUntilEvict" THEN NewEntry(op', now)
         ELSE IF Evictable(k, storage[k], now) THEN NoItem
         ELSE storage[k]
C14_StorageFull == [][C14_AmendedStep]_vars
C14_Witness ==
  /\ op.name = "set"
  /\ op.mode = "full"
  /\ IsEntry(op.held)
  /\ now - op.held.timestamp >= op.held.ttl
  /\ storage[KeyOf(op)] = NoItem
  /\ \E k \in DOMAIN storage : k # KeyOf(op) /\ IsEntry(storage[k])
  /\ storage["gardenSortBy"] = Setting
  /\ result = Value(Null)

\* C15: a read whose stored blob cannot be parsed, or during which storage
\* throws, returns null to its caller, as a read of a missing key does,
\* and leaves storage as it was.
C15_ReadFailureStep ==
  (/\ CacheCall("get")
   /\ (op'.mode = "unavailable" \/ storage[KeyOf(op')] = Corrupt))
  => /\ result' = Value(Null)
     /\ storage' = storage
C15_ReadFailureIsMiss == [][C15_ReadFailureStep]_vars
C15_Witness ==
  /\ op.name = "get"
  /\ op.mode = "ok"
  /\ storage[KeyOf(op)] = Corrupt
  /\ faults
  /\ result = Value(Null)

\* C16: clearCache removes every key that starts with the cache prefix and
\* changes no other key of localStorage; clearGardenCache(n) removes the
\* key of garden n and changes no other key.
C16_ClearStep ==
  /\ CacheCall("clear")
       => \A k \in DOMAIN storage :
            storage'[k] = IF k \in ForeignKeys \/ op'.mode = "unavailable"
                          THEN storage[k] ELSE NoItem
  /\ CacheCall("clearGarden")
       => \A k \in DOMAIN storage :
            storage'[k] = IF k = "osm_cache_garden_" \o op'.number
                             /\ op'.mode # "unavailable"
                          THEN NoItem ELSE storage[k]
C16_ClearOnlyOwnKeys == [][C16_ClearStep]_vars
C16_Witness ==
  /\ op.name = "clear"
  /\ op.mode = "ok"
  /\ op.present = {"gardenSortBy", "osm_cache_all_gardens", "osm_cache_garden_1050"}
  /\ {k \in DOMAIN storage : storage[k] # NoItem} = {"gardenSortBy"}
  /\ storage["gardenSortBy"] = Setting

\* C17: searchGardenByNumber without forceRefresh, finding a valid entry
\* for the number, returns the entry's payload and sends no request; with
\* forceRefresh it does not read the cache and sends a request, also when
\* a valid entry exists.
C17_CacheThenFetchStep ==
  (pc = "idle" /\ calls' = calls + 1 /\ op'.name = "search")
  => LET item == storage["osm_cache_garden_" \o op'.number]
         valid == IsEntry(item) /\ now - item.timestamp < item.ttl
     IN /\ (~op'.force /\ valid /\ ~faults')
             => (pc' = "done" /\ result' = Value(item.data) /\ reqs' = reqs /\ srv' = 0)
        /\ op'.force
             => (pc' = "fetch" /\ srv' = 1 /\ attempt' = 0 /\ storage' = storage
                 /\ result' = NoResult)
C17_CacheThenFetch == [][C17_CacheThenFetchStep]_vars
C17_Witness ==
  /\ op.name = "search"
  /\ op.force
  /\ IsEntry(op.held)
  /\ ~op.stale
  /\ pc = "fetch"
  /\ storage["osm_cache_garden_1050"] = op.held

\* the element the service is to choose: the first whose ref tag is the
\* number asked for, else the first of the list
HasRef(el, number) == "ref" \in DOMAIN el.tags /\ el.tags.ref = number
Chosen(elements, number) ==
  IF \E i \in DOMAIN elements : HasRef(elements[i], number)
  THEN elements[CHOOSE i \in DOMAIN elements :
                  /\ HasRef(elements[i], number)
                  /\ \A j \in 1..(i - 1) : ~HasRef(elements[j], number)]
  ELSE elements[1]

\* C18: when the body of a successful fetch of searchGardenByNumber holds
\* at least one element and storage works, the call returns the first
\* element whose ref tag equals the number, or the first element if there
\* is none, and that element is stored under garden_<number> with the time
\* of the write and a TTL of two hours.
C18_SelectionStep ==
  (/\ pc = "json"
   /\ op.name = "search"
   /\ HasElements(json')
   /\ Len(json'.elements) > 0
   /\ ~faults')
  => /\ pc' = "done"
     /\ result' = Value(Chosen(json'.elements, op.number))
     /\ storage'["osm_cache_garden_" \o op.number] =
          [kind |-> "entry", data |-> Chosen(json'.elements, op.number),
           timestamp |-> now, ttl |-> 2 * 60 * 60 * 1000]
C18_SelectionAndWriteBack == [][C18_SelectionStep]_vars

\* the list a parsed body hands to loadAllGardens
GardensOf(body) == IF HasElements(body) THEN body.elements ELSE <<>>
RegionKey == "osm_cache_all_gardens"
RegionEntryNonEmpty(st) ==
  IsEntry(st[RegionKey]) =>
    /\ st[RegionKey].data.kind = "list"
    /\ Len(st[RegionKey].data.items) > 0
    /\ st[RegionKey].ttl = 60 * 60 * 1000

\* C19: loadAllGardens never caches an empty result.  A body parsed from a
\* successful fetch that holds zero elements makes the call return the
\* empty list and leaves storage, an existing region entry included,
\* exactly as it was; a body with elements is written, storage working,
\* under all_gardens with the time of the write and a TTL of one hour; and
\* after every step the region entry, if there is one, is a non-empty list
\* with a TTL of one hour.
C19_NoEmptyStep ==
  /\ RegionEntryNonEmpty(storage')
  /\ (pc = "json" /\ op.name = "loadAll" /\ json' # Malformed) =>
       IF Len(GardensOf(json')) = 0
       THEN /\ storage' = storage
            /\ result' = Value(List(<<>>))
            /\ faults' = faults
       ELSE /\ result' = Value(List(GardensOf(json')))
            /\ ~faults' =>
                 storage' = [storage EXCEPT ![RegionKey] =
                   [kind |-> "entry", data |-> List(GardensOf(json')),
                    timestamp |-> now, ttl |-> 60 * 60 * 1000]]
C19_NeverCachesEmpty == [][C19_NoEmptyStep]_vars
C19_Witness ==
  /\ pc = "done"
  /\ op.name = "loadAll"
  /\ json # Malformed
  /\ HasElements(json)
  /\ Len(json.elements) = 0
  /\ IsEntry(storage[RegionKey])
  /\ result = Value(List(<<>>))

\* what the cache holds for a logical key at the time of a call: the payload
\* of a readable entry that has not expired, else nothing
HeldNow(key, readFailed) ==
  LET item == storage["osm_cache_" \o key]
  IN IF IsEntry(item) /\ now - item.timestamp < item.ttl /\ ~readFailed
     THEN item.data
     ELSE Null
UpdateCall == calls' = calls + 1 /\ IsUpdate(op')

\* C20: the WithUpdate variants do not block.  The step that calls
\* searchGardenByNumberWithUpdate returns the value the cache holds for the
\* number at that moment (absent when there is none), the step that calls
\* loadAllGardensWithUpdate returns the cached list (the empty list when
\* there is none); at the return no response has been received and no body
\* read, any request sent is still unanswered; the callback has not been
\* called in that step and is called or passed over only in a later step,
\* after the call has returned.
C20_NonBlockingStep ==
  /\ UpdateCall =>
       /\ returned' =
            IF op'.name = "search"
            THEN Value(HeldNow("garden_" \o op'.number, faults'))
            ELSE IF HeldNow("all_gardens", faults') = Null
                 THEN Value(List(<<>>))
                 ELSE Value(HeldNow("all_gardens", faults'))
       /\ callback' = NoResult
       /\ pc' \in {"fetch", "done"}
       /\ execResult' = NoResult
       /\ json' = NoOutcome
       /\ pc' = "done" => result' = returned'
  /\ (callback' # callback /\ callback' # NoResult) =>
       /\ returned # NoResult
       /\ returned' = returned
       /\ calls' = calls
C20_NonBlocking == [][C20_NonBlockingStep]_vars
C20_Witness ==
  /\ IsUpdate(op)
  /\ op.name = "search"
  /\ returned = Value(Null)
  /\ callback = Invoked(W1)
  /\ op.stale

\* the step in which the handlers of a WithUpdate call run
HandlerRuns == callback = NoResult /\ callback' # NoResult /\ calls' = calls

\* C21: when the background call of a WithUpdate function ends with data
\* identical to the snapshot the function returned, the handler passes the
\* callback over.
C21_NoOpStep == (HandlerRuns /\ result = returned) => callback' = NotInvoked
C21_IdenticalIsNoOp == [][C21_NoOpStep]_vars
C21_Witness ==
  /\ callback = NotInvoked
  /\ op.name = "search"
  /\ json # NoOutcome
  /\ returned = Value(W1)
  /\ result = returned

\* a fresh plot differs materially from the snapshot: one of the two is
\* absent, or the identifier or the outline is another
PlotDiffers(snapshot, fresh) ==
  IF snapshot = Null \/ fresh = Null
  THEN snapshot # fresh
  ELSE snapshot.id # fresh.id \/ snapshot.geometry # fresh.geometry
ListDiffers(snapshot, fresh) ==
  \/ Len(snapshot) # Len(fresh)
  \/ \E i \in DOMAIN fresh : PlotDiffers(snapshot[i], fresh[i])
Differs(snapshot, fresh) ==
  IF op.name = "search" THEN PlotDiffers(snapshot, fresh)
  ELSE ListDiffers(snapshot.items, fresh.items)

\* C22: in both WithUpdate variants, when the background call ends with a
\* result that differs materially from the snapshot the function returned
\* (another identifier, another outline with the identifiers unchanged, or a
\* plot that was present and is gone), the handler calls the callback with
\* the new result.
C22_NotifyStep ==
  (HandlerRuns /\ result.kind = "value" /\ Differs(returned.val, result.val))
  => callback' = Invoked(result.val)
C22_ChangeNotified == [][C22_NotifyStep]_vars

\* the background call has failed on every endpoint: fetchOverpassAPI threw
\* and the call's catch block produced the result
BackgroundFailed == IsUpdate(op) /\ pc = "done" /\ execResult.kind = "throw"

\* C23: when the background call of a WithUpdate function has failed on
\* every endpoint, the failure stays inside: the promise of the background
\* call is fulfilled, the value the function returned stays as it was, and
\* the handler does not call the callback to report it, that is, it never
\* calls the callback with an absent or empty result.
C23_SwallowStep ==
  (HandlerRuns /\ BackgroundFailed)
  => /\ result.kind = "value"
     /\ returned' = returned
     /\ callback' \notin {Invoked(Null), Invoked(List(<<>>))}
C23_BackgroundErrorsSwallowed == [][C23_SwallowStep]_vars

\* a page starts one of the lookups findByNumber, loadRegion or a
\* background-refresh variant
LookupStarts == calls' = calls + 1 /\ op'.name \in {"search", "loadAll"}
\* a page goes through a lookup without calling the service
LookupSkipped == consumer'.lookup = "skipped" /\ consumer' # consumer /\ consumer.page # "none"

\* C24: a page starts a lookup only while its consent flag for map data is
\* true; the flag becomes true only from a consent cookie whose value is
\* exactly true or from a reported choice that is exactly true (unset, null
\* and every other value count as no consent); and a lookup made without
\* consent yields no plot and leaves the service untouched: no call, no
\* request, no change of the cache.
C24_GatingStep ==
  /\ LookupStarts => Consent
  /\ (consumer'.cookiePreferences.openStreetMap /\ ~Consent)
       => consumer'.cookies.osm = "true"
  /\ (consumer'.cookiePreferences.openStreetMap /\ consumer.page = "none" /\ consumer'.page = "home")
       => consumer.cookies.google # "unset"
  /\ LookupSkipped =>
       /\ ~consumer'.cookiePreferences.openStreetMap
       /\ UNCHANGED serviceVars
Merged == geoArgs # NoResult /\ geoArgs.fn = "osmWayToGarden" /\ geoResult.kind = "value"
                             /\ geoResult.val # Null
\* an argument that names a parcel; absent, null and the empty string name none
NamesParcel(v) == v.kind = "string" /\ v.s # ""

\* C25: osmWayToGarden sets the parcel of the plot to the enclosing parcel
\* given as third argument when there is one, otherwise to the parcel of the
\* registry record, otherwise to the empty string.
C25_MergePrecedence ==
  Merged =>
    geoResult.val.parcel =
      IF NamesParcel(geoArgs.enclosingParcel) THEN geoArgs.enclosingParcel
      ELSE IF geoArgs.mockData # Undefined /\ "parcel" \in DOMAIN geoArgs.mockData
      THEN geoArgs.mockData.parcel
      ELSE Str("")
C25_Witness ==
  /\ Merged
  /\ geoArgs.mockData = [parcel |-> Str("X"), size |-> 300]
  /\ geoArgs.enclosingParcel = Str("Y")
  /\ geoResult.val.parcel = Str("Y")

\* a call of osmWayToGarden that returned
MergeReturned == geoArgs # NoResult /\ geoArgs.fn = "osmWayToGarden" /\ geoResult.kind = "value"
\* the size a registry record states, 0 without a record or a size
RegistrySize(mockData) ==
  IF mockData # Undefined /\ "size" \in DOMAIN mockData THEN mockData.size ELSE 0

\* C26: osmWayToGarden returns absent exactly when the way has no geometry
\* member or no vertex; a returned plot carries osmSize, the area computed
\* from the geometry (also when that is 0), and size, the size of the
\* registry record (0 when there is none or it states none): osmSize does
\* not depend on the record, size does not depend on the geometry.
C26_MergedPlot ==
  (geoArgs # NoResult /\ geoArgs.fn = "osmWayToGarden") =>
    /\ ("geometry" \notin DOMAIN geoArgs.osmWay \/ Len(geoArgs.osmWay.geometry) = 0)
         <=> geoResult = Value(Null)
    /\ (geoResult.kind = "value" /\ geoResult.val # Null) =>
         /\ {"osmSize", "size"} \subseteq DOMAIN geoResult.val
         /\ geoResult.val.osmSize = calculatePolygonArea(geoArgs.osmWay.geometry)
         /\ geoResult.val.size = RegistrySize(geoArgs.mockData)
\* a single-vertex way with a registry size of 300: area field 0, size 300
C26_Witness ==
  /\ MergeReturned
  /\ geoResult.val # Null
  /\ geoArgs.mockData = [parcel |-> Str("X"), size |-> 300]
  /\ geoResult.val.size = 300
  /\ geoResult.val.osmSize = 0

\* a call of findEnclosingParcel that selected among elements
ParcelCall == geoArgs # NoResult /\ geoArgs.fn = "findEnclosingParcel"
\* twice the centre of the plot asked about
CentreLat2 == SetMin(LatsOf(geoArgs.gardenWay.geometry)) + SetMax(LatsOf(geoArgs.gardenWay.geometry))
CentreLon2 == SetMin(LonsOf(geoArgs.gardenWay.geometry)) + SetMax(LonsOf(geoArgs.gardenWay.geometry))
\* the retained candidates whose polygon contains the centre (by position)
Containing ==
  {i \in DOMAIN geoArgs.elements :
     /\ KeepCandidate(geoArgs.elements[i], BoxArea(geoArgs.elements[i].geometry),
                      geoArgs.gardenWay.id, BoxArea(geoArgs.gardenWay.geometry))
     /\ Inside(CentreLat2, CentreLon2, geoArgs.elements[i])}
SubPlots == {i \in Containing : IsParcel(geoArgs.elements[i]) /\ ~IsVerein(geoArgs.elements[i])}
LandUses == {i \in Containing : IsVerein(geoArgs.elements[i]) /\ Tag(geoArgs.elements[i], "name") # ""}
Named(i) == Str(Tag(geoArgs.elements[i], "name"))
\* a containing named sub-plot is returned, the smallest of them
C27_SubPlotFirst ==
  (ParcelCall /\ SubPlots # {}) =>
    \E i \in SubPlots :
      /\ geoResult = Value(Named(i))
      /\ \A j \in SubPlots :
           BoxArea(geoArgs.elements[i].geometry) <= BoxArea(geoArgs.elements[j].geometry)
\* a land-use name is returned only when nothing else retained contains the centre
C27_LandUseLast ==
  ParcelCall =>
    \A i \in LandUses : geoResult = Value(Named(i)) => Containing = {i}

\* C27: when a named sub-plot that passes the size filter and a land-use
\* polygon both contain the centre of the plot, findEnclosingParcel returns
\* the sub-plot's name in whatever order the elements arrive; among several
\* containing sub-plots the one of smallest area wins; the land-use name is
\* returned only if no other retained candidate contains the centre.
C27_ParcelPrecedence == C27_SubPlotFirst /\ C27_LandUseLast

\* the way with the invalid points of its geometry left out
ValidWay(osmWay) ==
  IF "geometry" \in DOMAIN osmWay
  THEN [osmWay EXCEPT !.geometry = ValidPoints(osmWay.geometry)] ELSE osmWay
RECURSIVE ValidWays(_)
ValidWays(allGardens) ==
  IF Len(allGardens) = 0 THEN <<>>
  ELSE <<ValidWay(Head(allGardens))>> \o ValidWays(Tail(allGardens))
GeoCall(fn) == geoArgs # NoResult /\ geoArgs.fn = fn
\* the polygon area ignores invalid points
C28_Area ==
  GeoCall("calculatePolygonArea") =>
    geoResult = Value(calculatePolygonArea(ValidPoints(geoArgs.geometry)))
\* the merge ignores invalid points and is absent when no valid point is left
C28_Merge ==
  GeoCall("osmWayToGarden") =>
    geoResult = osmWayToGarden(ValidWay(geoArgs.osmWay), geoArgs.mockData, geoArgs.enclosingParcel)
\* the region bounds ignore invalid points and are flagged absent without a valid point
C28_Bounds ==
  GeoCall("calculateGardensBounds") =>
    LET filtered == calculateGardensBounds(ValidWays(geoArgs.allGardens))
    IN /\ geoResult.val.hasValidBounds = filtered.hasValidBounds
       /\ filtered.hasValidBounds => geoResult.val = filtered
\* the geometry centre ignores invalid points and is null without a valid point
C28_Center ==
  GeoCall("calculateGeometryCenter") =>
    geoResult = Value(calculateGeometryCenter(ValidPoints(geoArgs.geometry)))

\* C28: every geometry-consuming function (polygon area, merge centroid and
\* bounds, region bounds, geometry centre) ignores points whose latitude is
\* outside [-90, 90] or whose longitude is outside [-180, 180]: its result is
\* the one computed from the valid points alone, and the explicit no-result
\* value when no valid point is left.
C28_InvalidFiltered == C28_Area /\ C28_Merge /\ C28_Bounds /\ C28_Center

\* C29: for every input box and padding percentage the box returned by
\* applyBoundsPadding lies within OSNABRUECK_BOUNDS (south <= minLat,
\* maxLat <= north, west <= minLon, maxLon <= east) and is well formed
\* (min <= max on both axes).
C29_PaddingInsideRegion ==
  GeoCall("applyBoundsPadding") =>
    LET sw == geoResult.val[1]
        ne == geoResult.val[2]
    IN /\ OSNABRUECK_BOUNDS.south <= sw[1]
       /\ ne[1] <= OSNABRUECK_BOUNDS.north
       /\ OSNABRUECK_BOUNDS.west <= sw[2]
       /\ ne[2] <= OSNABRUECK_BOUNDS.east
       /\ sw[1] <= ne[1]
       /\ sw[2] <= ne[2]
\* the clamping alone: no side of the result passes the region's side
C29_Clamped ==
  GeoCall("applyBoundsPadding") =>
    /\ OSNABRUECK_BOUNDS.south <= geoResult.val[1][1]
    /\ geoResult.val[2][1] <= OSNABRUECK_BOUNDS.north
    /\ OSNABRUECK_BOUNDS.west <= geoResult.val[1][2]
    /\ geoResult.val[2][2] <= OSNABRUECK_BOUNDS.east
\* a box that overlaps the region gives a well-formed result
C29_OverlapWellFormed ==
  (/\ GeoCall("applyBoundsPadding")
   /\ geoArgs.minLat <= OSNABRUECK_BOUNDS.north /\ geoArgs.maxLat >= OSNABRUECK_BOUNDS.south
   /\ geoArgs.minLon <= OSNABRUECK_BOUNDS.east /\ geoArgs.maxLon >= OSNABRUECK_BOUNDS.west) =>
    /\ geoResult.val[1][1] <= geoResult.val[2][1]
    /\ geoResult.val[1][2] <= geoResult.val[2][2]

\* a ring listed with its closing duplicate: first vertex = last vertex
ClosedRing(geometry) == Len(geometry) >= 2 /\ geometry[1] = geometry[Len(geometry)]
\* the ring without its last vertex
Unclosed(geometry) == SubSeq(geometry, 1, Len(geometry) - 1)

\* C30: the area computed for a ring given with its closing duplicate vertex
\* (first = last) equals the area computed for the same ring with the closing
\* duplicate removed, also for a closed ring of three listed vertices.
C30_ClosureIdempotent ==
  (GeoCall("calculatePolygonArea") /\ ClosedRing(geoArgs.geometry)) =>
    geoResult = Value(calculatePolygonArea(Unclosed(geoArgs.geometry)))
\* the same for closed rings of four or more listed vertices
C30_ClosureFromFour ==
  (GeoCall("calculatePolygonArea") /\ ClosedRing(geoArgs.geometry) /\ Len(geoArgs.geometry) >= 4) =>
    geoResult = Value(calculatePolygonArea(Unclosed(geoArgs.geometry)))

\* the returned elements that are the input plot itself
SelfElements == {i \in DOMAIN geoArgs.elements : geoArgs.elements[i].id = geoArgs.gardenWay.id}

\* C35: findEnclosingParcel never attributes a plot to itself: for every set
\* of returned elements the name it returns is never taken from the element
\* whose identifier equals the identifier of the input plot, in the main
\* candidate loop and in each of the fallback steps.
C35_NeverItself ==
  ParcelCall => \A i \in SelfElements : geoResult # Value(Named(i))

\* C37: a request that fails with an exception other than the timeout's
\* abort (a network error) is not retried: the step that catches it starts
\* no backoff timer and leaves the endpoint after that single attempt, so
\* that the next request, if there is one, is attempt 0 of the next endpoint.
C37_NetworkErrorStep ==
  (pc = "fetch" /\ resp' = NetworkError) => (pc' # "wait" /\ delay' = delay /\ Advances)
C37_NetworkErrorNotRetried == [][C37_NetworkErrorStep]_vars
\* a network error on the first attempt at endpoint 1, with retries left,
\* was followed by attempt 0 at endpoint 2, which failed the same way
C37_Witness ==
  /\ pc = "fetch"
  /\ resp = NetworkError
  /\ maxRetries = DefaultMaxRetries
  /\ Len(reqs) = 3
  /\ \A i \in 1..3 : reqs[i].srv = i /\ reqs[i].attempt = 0

\* a forced lookup of a plot whose requests have all failed, in this step,
\* while the entry held for the plot is still valid and storage can be read
ForcedRefreshFails ==
  /\ pc \in {"idle", "fetch", "wait"}
  /\ pc' = "done"
  /\ op'.name = "search"
  /\ op'.force
  /\ ~IsUpdate(op')
  /\ execResult'.kind = "throw"
  /\ ~faults'
  /\ Stored(storage, GARDEN(op'.number)).kind = "entry"
  /\ isCacheValid(Stored(storage, GARDEN(op'.number)), now')

\* C33: when searchGardenByNumber is called with forceRefresh = true while a
\* still-valid entry exists for the plot and every endpoint fails, the call
\* returns the cached plot and leaves the entry's payload, timestamp and TTL
\* (and the rest of storage) unchanged.
C33_FailedRefreshStep ==
  ForcedRefreshFails =>
    /\ result' = Value(Stored(storage, GARDEN(op'.number)).data)
    /\ storage' = storage
C33_FailedRefreshKeepsCache == [][C33_FailedRefreshStep]_vars
C33_Witness ==
  /\ pc = "done"
  /\ op.name = "search"
  /\ op.force
  /\ execResult.kind = "throw"
  /\ ~faults
  /\ op.held.kind = "entry"
  /\ Stored(storage, GARDEN(op.number)) = op.held
  /\ result = Value(op.held.data)
  /\ now > op.held.timestamp

\* a body that parses and lists no element
EmptyAnswer(body) == body # Malformed /\ (~HasElements(body) \/ Len(body.elements) = 0)
\* the answer to a lookup of a plot is read in this step and has no element
EmptyAnswerRead == pc = "json" /\ pc' = "done" /\ op.name = "search" /\ EmptyAnswer(json')
\* a lookup without forceRefresh is called in this step while a valid entry
\* for the plot can be read
CallOverValidEntry ==
  /\ pc = "idle"
  /\ pc' # "idle"
  /\ op'.name = "search"
  /\ ~op'.force
  /\ ~IsUpdate(op')
  /\ ~faults'
  /\ op'.held.kind = "entry"
  /\ isCacheValid(op'.held, now)

\* C34: when a successful fetch for searchGardenByNumber returns zero
\* elements the call returns null, writes nothing to the cache and removes
\* nothing from it; a later call without forceRefresh that finds the older
\* entry still valid returns the plot of that entry.
C34_NoNegativeStep ==
  /\ EmptyAnswerRead => (result' = Value(Null) /\ storage' = storage /\ faults' = faults)
  /\ CallOverValidEntry => (pc' = "done" /\ result' = Value(op'.held.data) /\ storage' = storage)
C34_NoNegativeCaching == [][C34_NoNegativeStep]_vars
\* a forced lookup over a valid entry was answered without elements
C34_Witness ==
  /\ pc = "done"
  /\ op.name = "search"
  /\ op.force
  /\ EmptyAnswer(json)
  /\ op.held.kind = "entry"
  /\ isCacheValid(op.held, now)
  /\ Stored(storage, GARDEN(op.number)) = op.held
  /\ result = Value(Null)

\* the payload the background read of a WithUpdate call finds still valid,
\* Null when there is none or it cannot be served: the entry of the key, read
\* when the clock shows now' (for the region a non-empty list)
ValidForBackground ==
  LET key == IF op'.name = "search" THEN GARDEN(op'.number) ELSE ALL_GARDENS
      item == Stored(storage, key)
  IN IF IsEntry(item) /\ isCacheValid(item, now') /\ ~faults'
        /\ (op'.name = "loadAll" => Len(item.data.items) > 0)
     THEN item.data ELSE Null
\* the background call of the WithUpdate call in progress sent no request
NothingFetched == IsUpdate(op) /\ pc = "done" /\ execResult = NoResult /\ json = NoOutcome

\* C32: while a still-valid entry exists for the key, the background call of
\* searchGardenByNumberWithUpdate (and of loadAllGardensWithUpdate, for a
\* non-empty cached list) is served from the cache: it sends no request and
\* its handler passes the callback over, whatever the remote service holds.
C32_ServedStep ==
  /\ (UpdateCall /\ ValidForBackground # Null) =>
       /\ pc' = "done"
       /\ srv' = 0
       /\ execResult' = NoResult
       /\ result' = Value(ValidForBackground)
       /\ storage' = storage
  /\ (HandlerRuns /\ NothingFetched) => callback' = NotInvoked
ExecuteRunning == op.name = "execute" /\ pc \in {"fetch", "wait"}
ExecuteOver == op.name = "execute" /\ pc = "done" /\ execResult.kind \in {"value", "throw"}
\* the step that calls fetchOverpassAPI with no attempt per endpoint
ZeroRetriesStep ==
  (calls' = calls + 1 /\ op'.name = "execute" /\ maxRetries' = 0) =>
    (pc' = "done" /\ execResult'.kind = "throw" /\ reqs' = <<>>)

\* C36: provided every request eventually completes, fails or is cancelled
\* by its timeout, every call of fetchOverpassAPI eventually returns a
\* response or throws, for every maxRetries >= 0; with maxRetries = 0 it
\* throws without sending a request.
C36_Terminates == (ExecuteRunning ~> ExecuteOver) /\ [][ZeroRetriesStep]_vars
\* the longest call is over: every attempt at every endpoint was made
C36_Witness ==
  /\ ExecuteOver
  /\ maxRetries = DefaultMaxRetries
  /\ Len(reqs) = NumServers * DefaultMaxRetries
  /\ execResult.kind = "throw"

\* the entry one call of setCache leaves for a plot
WrittenBy(c) == [kind |-> "entry", data |-> c.result.val, timestamp |-> c.at, ttl |-> GARDEN_TTL]
\* caller i calls in this step and finds no valid entry for the number
PeerMisses(i) ==
  /\ peers.call[i].pc = "idle"
  /\ peers'.call[i].pc # "idle"
  /\ ~(IsEntry(Stored(storage, GARDEN(PairNumber)))
       /\ isCacheValid(Stored(storage, GARDEN(PairNumber)), now))
\* callers that miss are not coalesced: each sends a request of its own,
\* also while the other caller's request for the same number is in flight
C31_NotCoalescedStep ==
  \A i \in 1..2 :
    PeerMisses(i) =>
      /\ peers'.call[i].pc = "fetch"
      /\ peers'.call[i].sent = 1
      /\ peers'.call[3 - i] = peers.call[3 - i]
\* the entry is, as a whole, the one written by the caller whose answer was
\* processed last
C31_LastWriteWins ==
  peers.last # 0 => Stored(storage, GARDEN(PairNumber)) = WrittenBy(peers.call[peers.last])

\* C31: two calls of searchGardenByNumber for the same number that both
\* miss the cache are not coalesced, each sends its own request; in every
\* interleaving of the two answers the cache entry equals in full (payload,
\* timestamp, TTL) what the call whose answer was processed last has
\* written, never a mixture of the two.
C31_ConcurrentLookups == [][C31_NotCoalescedStep /\ C31_LastWriteWins']_vars
\* both callers missed and fetched; caller 1 stored way 1, a minute later
\* caller 2 stored the redrawn way 1
C31_Witness ==
  /\ peers.call[1].pc = "done"
  /\ peers.call[2].pc = "done"
  /\ peers.call[1].sent >= 1
  /\ peers.call[2].sent >= 1
  /\ peers.call[1].result = Value(W1)
  /\ peers.call[2].result = Value(W1b)
  /\ peers.call[1].at < peers.call[2].at
  /\ peers.last = 2
  /\ Stored(storage, GARDEN(PairNumber)).data = W1b

====
